---- MODULE Spec2Model ----
(***************************************************************************)
(* A model of PLCrashReporter's async-safe Objective-C metadata parser     *)
(* (Source/PLCrashAsyncObjCSection.c) and of the ARM thread-state register *)
(* file (Source/PLCrashAsyncThread_arm.c).                                 *)
(*                                                                         *)
(* Task memory is modelled at the level of 32-bit words: a word is the     *)
(* tuple of its four bytes in memory order, the analysing host is          *)
(* little-endian, and every structure of the source is read field by field *)
(* at the offsets its C declaration gives it.                              *)
(***************************************************************************)
EXTENDS Integers, Sequences, FiniteSets, TLC

VARIABLES
    cache,       \* the plcrash_async_objc_cache_t object
    life,        \* lifecycle of the cache object: "ready" or "freed"
    scen,        \* which of the scenarios this behaviour runs in
    mem,         \* the contents of the task's memory (fixed for one behaviour)
    unreadable,  \* regions of task memory the task has unmapped
    last,        \* the last operation, its arguments and what it returned
    hist,        \* cache_set calls that stored into a free slot (key -> value)
    ts,          \* the ARM thread state
    owned        \* the memory objects mapped and not freed yet, and what
                 \* went wrong with one (plcrash_async_mobject_free)

vars == <<cache, life, scen, mem, unreadable, last, hist, ts, owned>>

----------------------------------------------------------------------------
(* Error codes (plcrash_error_t).                                          *)

PLCRASH_ESUCCESS == "ESUCCESS"
PLCRASH_EUNKNOWN == "EUNKNOWN"
PLCRASH_ENOTFOUND == "ENOTFOUND"
PLCRASH_EINVAL == "EINVAL"
PLCRASH_EACCESS == "EACCESS"

----------------------------------------------------------------------------
(* Pointers into the analyser's own memory: a block and an element offset. *)

NULL == [blk |-> 0, off |-> 0]

\* The block vm_allocate hands out.
VmBlock == 1

\* A local variable of the code: e is computed once, where the statement
\* stands, and F is what follows it.
Let(e, F(_)) == CHOOSE v \in {F(r) : r \in {e}} : TRUE

PtrAdd(p, n) == [p EXCEPT !.off = @ + n]

\* A zero-filled array is stored sparsely: only its non-zero elements.
ZeroFilled == [i \in {} |-> 0]

Load(block, off) == IF off \in DOMAIN block THEN block[off] ELSE 0

Store(block, off, v) ==
    IF v = 0
    THEN [i \in DOMAIN block \ {off} |-> block[i]]
    ELSE [i \in DOMAIN block \cup {off} |-> IF i = off THEN v ELSE block[i]]

----------------------------------------------------------------------------
(* The class cache: cache_index, cache_lookup, cache_set.                  *)

\* size_t size = 1024 in cache_set
CacheAllocSize == 1024

cache_index(context, key) == (key \div 4) % context.classCacheSize

\* context->classCacheKeys[index] and context->classCacheValues[index]
KeyAt(context, index) ==
    Load(context.cacheBlock, context.classCacheKeys.off + index)

ValueAt(context, index) ==
    Load(context.cacheBlock, context.classCacheValues.off + index)

\* A cache_lookup that returns the value of the bucket whatever its key.
cache_lookup_any_key(context, key) ==
    IF context.classCacheSize > 0
    THEN ValueAt(context, cache_index(context, key))
    ELSE 0

cache_lookup(context, key) ==
    IF context.classCacheSize > 0
    THEN LET index == cache_index(context, key)
         IN  IF KeyAt(context, index) = key
             THEN ValueAt(context, index)
             ELSE 0
    ELSE 0

\* Writing bucket index of the key and value arrays.
WriteBucket(context, index, key, value) ==
    [context EXCEPT !.cacheBlock =
        Store(Store(@, context.classCacheKeys.off + index, key),
              context.classCacheValues.off + index, value)]

\* A variant of the tail of cache_set that stores without looking at the
\* bucket.
cache_store_always(context, key, value) ==
    WriteBucket(context, cache_index(context, key), key, value)

\* A variant that also refreshes the value of a key already present.
cache_store_refresh(context, key, value) ==
    LET index == cache_index(context, key)
    IN  IF KeyAt(context, index) = 0 \/ KeyAt(context, index) = key
        THEN WriteBucket(context, index, key, value)
        ELSE context

\* The tail of cache_set: the bucket is written only when its key is 0.
cache_store(context, key, value) ==
    LET index == cache_index(context, key)
    IN  IF KeyAt(context, index) = 0
        THEN WriteBucket(context, index, key, value)
        ELSE context

\* A cache_set that leaves classCacheSize at 1024 when vm_allocate fails.
cache_set_keeps_size(context, key, value, vmAllocOK) ==
    IF context.classCacheKeys = NULL
    THEN IF vmAllocOK
         THEN LET keys == [blk |-> VmBlock, off |-> 0]
                  fresh == [context EXCEPT
                               !.classCacheSize = CacheAllocSize,
                               !.classCacheKeys = keys,
                               !.classCacheValues = PtrAdd(keys, CacheAllocSize),
                               !.cacheBlock = ZeroFilled]
              IN  cache_store(fresh, key, value)
         ELSE [context EXCEPT !.classCacheSize = CacheAllocSize]
    ELSE cache_store(context, key, value)

\* vmAllocOK: whether vm_allocate, if it is called, returns KERN_SUCCESS.
cache_set(context, key, value, vmAllocOK) ==
    IF context.classCacheKeys = NULL
    THEN IF vmAllocOK
         THEN LET keys == [blk |-> VmBlock, off |-> 0]
                  fresh == [context EXCEPT
                               !.classCacheSize = CacheAllocSize,
                               !.classCacheKeys = keys,
                               !.classCacheValues = PtrAdd(keys, CacheAllocSize),
                               !.cacheBlock = ZeroFilled]
              IN  cache_store(fresh, key, value)
         ELSE [context EXCEPT !.classCacheSize = 0]
    ELSE cache_store(context, key, value)

----------------------------------------------------------------------------
(* plcrash_async_objc_cache_init.                                          *)

NoMobj == [task_address |-> 0, length |-> 0, image |-> "none"]

\* The storage of a plcrash_async_objc_cache_t before its first use.
Storage ==
    [gotObjC2Info |-> FALSE,
     lastImage |-> "NULL",
     objcConstMobj |-> NoMobj,
     objcConstMobjInitialized |-> FALSE,
     classMobj |-> NoMobj,
     classMobjInitialized |-> FALSE,
     objcDataMobj |-> NoMobj,
     objcDataMobjInitialized |-> FALSE,
     classCacheSize |-> 0,
     classCacheKeys |-> NULL,
     classCacheValues |-> NULL,
     cacheBlock |-> ZeroFilled]

\* The fields the function assigns.  A memory object whose flag is cleared
\* and a cache block the object no longer points to are out of the
\* program's reach; they are written here as holding nothing.
plcrash_async_objc_cache_init(c) ==
    [c EXCEPT !.gotObjC2Info = FALSE,
              !.lastImage = "NULL",
              !.objcConstMobjInitialized = FALSE,
              !.classMobjInitialized = FALSE,
              !.objcDataMobjInitialized = FALSE,
              !.classCacheSize = 0,
              !.classCacheKeys = NULL,
              !.classCacheValues = NULL,
              !.objcConstMobj = NoMobj,
              !.classMobj = NoMobj,
              !.objcDataMobj = NoMobj,
              !.cacheBlock = ZeroFilled]

----------------------------------------------------------------------------
(* Words, byte order and task memory.                                      *)

ZeroWord == <<0, 0, 0, 0>>

\* The bytes, in little-endian memory order, of a value below 2^31.
Word(n) ==
    <<n % 256, (n \div 256) % 256, (n \div 65536) % 256, (n \div 16777216) % 256>>

ByteSwap(w) == <<w[4], w[3], w[2], w[1]>>

\* Every address of the modelled task lies below 2^31; a word with its top
\* bit set reads as the one address above them all.
HighAddress == 2147483646 + 1

\* The value the little-endian host gives a word it loaded.
HostValue(w) ==
    IF w[4] < 128
    THEN w[1] + 256 * w[2] + 65536 * w[3] + 16777216 * w[4]
    ELSE HighAddress

\* The value of a loaded 64-bit quantity: <<low word, high word>>.
HostValue64(q) == IF q[2] = ZeroWord THEN HostValue(q[1]) ELSE HighAddress

\* image->byteorder->swap32 and swap64
swap32(image, w) == IF image.byteorder = "swapped" THEN ByteSwap(w) ELSE w

swap64(image, q) ==
    IF image.byteorder = "swapped" THEN <<ByteSwap(q[2]), ByteSwap(q[1])>> ELSE q

\* image->byteorder->swap16 of a loaded pair of bytes, as a value
swap16(image, h) ==
    IF image.byteorder = "swapped" THEN h[2] + 256 * h[1] ELSE h[1] + 256 * h[2]

\* Bit b of a loaded, unswapped 32-bit word (flags & (1 << b)) != 0.
TestBit(w, b) == (w[(b \div 8) + 1] \div (2 ^ (b % 8))) % 2 = 1

\* static const uint32_t RW_REALIZED = (1<<31), RW_COPIED_RO = (1<<27)
RW_REALIZED == 31
RW_COPIED_RO == 27

\* static uint32_t CLS_NO_METHOD_ARRAY = 0x4000 (bit 14)
CLS_NO_METHOD_ARRAY == 14

\* static uint32_t END_OF_METHODS_LIST = -1, as a loaded word
END_OF_METHODS_LIST == <<255, 255, 255, 255>>

----------------------------------------------------------------------------
(* Structure layouts: field offsets and sizes, 32- and 64-bit.             *)

\* struct pl_objc2_class_32 / _64
Class2_isa == 0
Class2_data_rw(image) == IF image.m64 THEN 32 ELSE 16
Class2_size(image) == IF image.m64 THEN 40 ELSE 20

\* struct pl_objc2_class_data_rw_32 / _64
RW_flags == 0
RW_data_ro == 8
RW_size(image) == IF image.m64 THEN 16 ELSE 12

\* struct pl_objc2_class_data_ro_32 / _64
RO_name(image) == IF image.m64 THEN 24 ELSE 16
RO_baseMethods(image) == IF image.m64 THEN 32 ELSE 20
RO_size(image) == IF image.m64 THEN 72 ELSE 40

\* struct pl_objc2_method_32 / _64
Method2_name == 0
Method2_imp(image) == IF image.m64 THEN 16 ELSE 8
Method2_size(image) == IF image.m64 THEN 24 ELSE 12

\* struct pl_objc2_list_header
Header_entsize == 0
Header_count == 4
Header_size == 8

PointerSize(image) == IF image.m64 THEN 8 ELSE 4

----------------------------------------------------------------------------
(* The task: three Mach-O images and the memory their metadata lives in.   *)
(* A scenario fixes the byte order and word size of the images and what    *)
(* the first class of each class list looks like.                          *)

Enc32(image, v) == IF image.byteorder = "swapped" THEN ByteSwap(Word(v)) ELSE Word(v)

Put32(image, a, v) == a :> Enc32(image, v)

\* A pointer-sized field holding v.
PutPtr(image, a, v) ==
    IF image.m64
    THEN IF image.byteorder = "swapped"
         THEN (a :> ZeroWord) @@ ((a + 4) :> ByteSwap(Word(v)))
         ELSE (a :> Word(v)) @@ ((a + 4) :> ZeroWord)
    ELSE Put32(image, a, v)

Zeros(a, len) == [x \in {a + 4 * i : i \in 0 .. (len \div 4) - 1} |-> ZeroWord]

\* The flags word with the bits of S set, in the image's byte order.
FlagsWord(image, S) ==
    LET w == [i \in 1 .. 4 |->
                 IF \E b \in S : b \div 8 = i - 1
                 THEN LET bs == {b \in S : b \div 8 = i - 1}
                      IN  (IF \E b \in bs : b % 8 = 7 THEN 128 ELSE 0)
                        + (IF \E b \in bs : b % 8 = 3 THEN 8 ELSE 0)
                 ELSE 0]
    IN  IF image.byteorder = "swapped" THEN ByteSwap(w) ELSE w

Class2Mem(image, a, isa, data_rw) ==
    PutPtr(image, a + Class2_isa, isa)
    @@ PutPtr(image, a + Class2_data_rw(image), data_rw)
    @@ Zeros(a, Class2_size(image))

RWMem(image, a, flagBits, data_ro) ==
    ((a + RW_flags) :> FlagsWord(image, flagBits))
    @@ PutPtr(image, a + RW_data_ro, data_ro)
    @@ Zeros(a, RW_size(image))

ROMem(image, a, name, baseMethods) ==
    PutPtr(image, a + RO_name(image), name)
    @@ PutPtr(image, a + RO_baseMethods(image), baseMethods)
    @@ Zeros(a, RO_size(image))

RECURSIVE MethodEntriesMem(_, _, _, _)
MethodEntriesMem(image, a, entsize, methods) ==
    IF methods = <<>>
    THEN Zeros(a, 0)
    ELSE PutPtr(image, a + Method2_name, Head(methods)[1])
         @@ PutPtr(image, a + Method2_imp(image), Head(methods)[2])
         @@ Zeros(a, entsize)
         @@ MethodEntriesMem(image, a + entsize, entsize, Tail(methods))

\* A method list: the header, its entsize carrying flag bits, and the entries.
MethodList2Mem(image, a, methods) ==
    Put32(image, a + Header_entsize, Method2_size(image) + 3)
    @@ Put32(image, a + Header_count, Len(methods))
    @@ MethodEntriesMem(image, a + Header_size, Method2_size(image), methods)

\* Where things live in the task's address space.
A ==
    [moduleInfo |-> 256, symtab |-> 512, classP |-> 640, metaP |-> 680,
     classQ |-> 720, metaQ |-> 760, listP |-> 800, listP2 |-> 840,
     arrayP |-> 880, listMP |-> 900, listQ |-> 920, listMQ |-> 960,
     classlist2 |-> 1024, classlist3 |-> 1536,
     classX |-> 2048, metaX |-> 2088, classY |-> 2128, metaY |-> 2168,
     classZ |-> 3072, metaZ |-> 3112,
     const2 |-> 4096, roX |-> 4096, roMX |-> 4176, roY |-> 4256, roMY |-> 4336,
     listX |-> 4416, listMX |-> 4480, listY |-> 4520, listMY |-> 4576,
     const3 |-> 6144, roZ |-> 6144, roMZ |-> 6224, listZ |-> 6304, listMZ |-> 6336,
     rwX |-> 8192, rwMX |-> 8208, rwY |-> 12288, rwMY |-> 12304,
     roHeap |-> 16384, rwZ |-> 20484, rwMZ |-> 20500,
     nameX |-> 24000, nameY |-> 24004, nameZ |-> 24008, nameP |-> 24012,
     nameQ |-> 24016,
     selA |-> 24100, selB |-> 24104, selC |-> 24108, selD |-> 24112,
     selE |-> 24116, selF |-> 24120, selG |-> 24124, selH |-> 24128,
     nowhere |-> 40000]

\* The C strings of the task, by address.
Strings ==
    (A.nameX :> "X") @@ (A.nameY :> "Y") @@ (A.nameZ :> "Z")
    @@ (A.nameP :> "P") @@ (A.nameQ :> "Q")
    @@ (A.selA :> "a") @@ (A.selB :> "b") @@ (A.selC :> "c") @@ (A.selD :> "d")
    @@ (A.selE :> "e") @@ (A.selF :> "f") @@ (A.selG :> "g") @@ (A.selH :> "h")

\* The method implementations: selector address and IMP.
MethodsX(s) ==
    <<(<<IF s.xBreak = "methname" THEN A.nowhere ELSE A.selA, 100>>),
      (<<IF s.xBreak = "methname2" THEN A.nowhere ELSE A.selB, 200>>) >>
MethodsMX == << <<A.selC, 300>> >>
MethodsY == << <<A.selD, 200>>, <<A.selE, 400>> >>
MethodsMY == << <<A.selF, 500>> >>
MethodsZ == << <<A.selG, 250>> >>
MethodsMZ == << <<A.selH, 320>> >>

Image1(s) == [id |-> "img1", m64 |-> FALSE, byteorder |-> s.byteorder]
Image2(s) == [id |-> "img2", m64 |-> s.m64, byteorder |-> s.byteorder]
Image3(s) == [id |-> "img3", m64 |-> s.m64, byteorder |-> s.byteorder]

\* Flags that read as realized in either byte order: bit 31 and its mirror
\* image, bit 7.
RealizedEitherWay == {RW_REALIZED, 7}

\* The second image: classes X and Y and their metaclasses.  X is the class
\* the scenario varies; its data_rw and Y's fall into the same cache bucket.
Mem2(s) ==
    LET im == Image2(s)
        roAddrX == CASE s.xRO = "const" -> A.roX
                     [] s.xRO = "heap" -> A.roHeap
                     [] OTHER -> A.nowhere
        nameOfX == IF s.xBreak = "name" THEN A.nowhere ELSE A.nameX
        listOfX == CASE s.xBreak = "methods" -> A.roHeap
                     [] s.xBreak = "nomethods" -> 0
                     [] OTHER -> A.listX
        entsizeOfX == IF s.xBreak = "entsize"
                      THEN Put32(im, A.listX + Header_entsize, 4 + 3)
                      ELSE Zeros(A.listX, 0)
    IN  entsizeOfX
        @@ PutPtr(im, A.classlist2, IF s.xBreak = "classptr" THEN A.nowhere ELSE A.classX)
        @@ PutPtr(im, A.classlist2 + PointerSize(im), A.classY)
        @@ Class2Mem(im, A.classX,
                     CASE s.xBreak = "isa" -> A.nowhere
                       [] s.xBreak = "isaself" -> A.classX
                       [] OTHER -> A.metaX,
                     IF s.xBreak = "rw" THEN A.nowhere ELSE A.rwX + 1)
        @@ Class2Mem(im, A.metaX, A.metaX, A.rwMX)
        @@ Class2Mem(im, A.classY, A.metaY, A.rwY + 2)
        @@ Class2Mem(im, A.metaY, A.metaX, A.rwMY)
        @@ RWMem(im, A.rwX, s.xFlags, roAddrX)
        @@ RWMem(im, A.rwMX, RealizedEitherWay, A.roMX)
        @@ RWMem(im, A.rwY, RealizedEitherWay, A.roY)
        @@ RWMem(im, A.rwMY, RealizedEitherWay, A.roMY)
        @@ ROMem(im, A.roX, nameOfX, listOfX)
        @@ ROMem(im, A.roHeap, nameOfX, listOfX)
        @@ ROMem(im, A.roMX, A.nameX, A.listMX)
        @@ ROMem(im, A.roY, A.nameY, A.listY)
        @@ ROMem(im, A.roMY, A.nameY, A.listMY)
        @@ MethodList2Mem(im, A.listX, MethodsX(s))
        @@ MethodList2Mem(im, A.listMX, MethodsMX)
        @@ MethodList2Mem(im, A.listY, MethodsY)
        @@ MethodList2Mem(im, A.listMY, MethodsMY)
        @@ Zeros(A.const2, 1024)

\* The third image: one class Z, always well formed.
Mem3(s) ==
    LET im == Image3(s)
    IN  PutPtr(im, A.classlist3, A.classZ)
        @@ Class2Mem(im, A.classZ, A.metaZ, A.rwZ)
        @@ Class2Mem(im, A.metaZ, A.metaZ, A.rwMZ)
        @@ RWMem(im, A.rwZ, RealizedEitherWay, A.roZ)
        @@ RWMem(im, A.rwMZ, RealizedEitherWay, A.roMZ)
        @@ ROMem(im, A.roZ, A.nameZ, A.listZ)
        @@ ROMem(im, A.roMZ, A.nameZ, A.listMZ)
        @@ MethodList2Mem(im, A.listZ, MethodsZ)
        @@ MethodList2Mem(im, A.listMZ, MethodsMZ)
        @@ Zeros(A.const3, 256)

\* The sections of each image: task address and length.
\* The part of the heap the task may take away while it runs: the class_rw
\* of class X and the heap copy of its class_ro.
Region(a) ==
    IF (a >= A.rwX /\ a < A.rwX + 16) \/ (a >= A.roHeap /\ a < A.roHeap + 72)
    THEN "heap"
    ELSE "fixed"

Regions == {"heap"}

\* struct pl_objc1_module, pl_objc1_symtab, pl_objc1_class,
\* pl_objc1_method_list and pl_objc1_method: field offsets and sizes.
Module1 == [symtab |-> 12, size |-> 16]
Symtab1 == [cls_def_count |-> 8, size |-> 12]
Class1 == [isa |-> 0, name |-> 8, info |-> 16, methods |-> 28, size |-> 40]
MethodList1 == [count |-> 4, size |-> 8]
Method1 == [name |-> 0, imp |-> 8, size |-> 12]

Class1Mem(image, a, isa, name, infoBits, methods) ==
    Put32(image, a + Class1.isa, isa)
    @@ Put32(image, a + Class1.name, name)
    @@ Put32(image, a + Class1.info, IF CLS_NO_METHOD_ARRAY \in infoBits THEN 16384 + 1 ELSE 1)
    @@ Put32(image, a + Class1.methods, methods)
    @@ Zeros(a, Class1.size)

RECURSIVE Method1EntriesMem(_, _, _)
Method1EntriesMem(image, a, methods) ==
    IF methods = <<>>
    THEN Zeros(a, 0)
    ELSE Put32(image, a + Method1.name, Head(methods)[1])
         @@ Put32(image, a + Method1.imp, Head(methods)[2])
         @@ Zeros(a, Method1.size)
         @@ Method1EntriesMem(image, a + Method1.size, Tail(methods))

MethodList1Mem(image, a, methods) ==
    Put32(image, a + MethodList1.count, Len(methods))
    @@ Zeros(a, MethodList1.size)
    @@ Method1EntriesMem(image, a + MethodList1.size, methods)

MethodsP == << <<A.selA, 150>>, <<A.selB, 250>> >>
MethodsP2 == << <<A.selC, 260>> >>
MethodsMP == << <<A.selD, 350>> >>
MethodsQ == << <<A.selE, 450>> >>
MethodsMQ == << <<A.selF, 550>> >>

\* The first image: ObjC1 metadata.  Two module records, the first without a
\* symtab; the symtab of the second lists classes P and Q.  The scenario
\* says how P holds its methods: "arrayOpen" is an array of list pointers
\* without a terminator, which runs into memory that is not mapped, and in
\* "isaCycle" the isa of P is Q and the isa of Q is P.
Mem1(s) ==
    LET im == Image1(s)
        single == s.o1 \in {"single", "nomethods", "badclass", "badname", "isaCycle"}
        countBytes == IF im.byteorder = "swapped" THEN <<0, 2, 0, 0>> ELSE <<2, 0, 0, 0>>
        terminator == CASE s.o1 = "arrayEnd" -> END_OF_METHODS_LIST
                        [] s.o1 = "arrayOpen" -> Enc32(im, A.listMP)
                        [] OTHER -> ZeroWord
        cycle == s.o1 = "isaCycle"
    IN  Put32(im, A.moduleInfo + Module1.size + Module1.symtab, A.symtab)
        @@ Zeros(A.moduleInfo, 2 * Module1.size)
        @@ ((A.symtab + Symtab1.cls_def_count) :> countBytes)
        @@ Zeros(A.symtab, Symtab1.size)
        @@ Put32(im, A.symtab + Symtab1.size,
                 IF s.o1 = "badclass" THEN A.nowhere ELSE A.classP)
        @@ Put32(im, A.symtab + Symtab1.size + 4, A.classQ)
        @@ Class1Mem(im, A.classP, IF cycle THEN A.classQ ELSE A.metaP,
                     IF s.o1 = "badname" THEN A.nowhere ELSE A.nameP,
                     IF single THEN {CLS_NO_METHOD_ARRAY} ELSE {},
                     CASE s.o1 = "nomethods" -> 0
                       [] single -> A.listP
                       [] OTHER -> A.arrayP)
        @@ Class1Mem(im, A.metaP, A.metaP, A.nameP, {CLS_NO_METHOD_ARRAY}, A.listMP)
        @@ Class1Mem(im, A.classQ, IF cycle THEN A.classP ELSE A.metaQ, A.nameQ,
                     {CLS_NO_METHOD_ARRAY}, A.listQ)
        @@ Class1Mem(im, A.metaQ, A.metaP, A.nameQ, {CLS_NO_METHOD_ARRAY}, A.listMQ)
        @@ MethodList1Mem(im, A.listP, MethodsP)
        @@ MethodList1Mem(im, A.listP2, MethodsP2)
        @@ MethodList1Mem(im, A.listMP, MethodsMP)
        @@ MethodList1Mem(im, A.listQ, MethodsQ)
        @@ MethodList1Mem(im, A.listMQ, MethodsMQ)
        @@ Put32(im, A.arrayP, A.listP)
        @@ Put32(im, A.arrayP + 4, A.listP2)
        @@ ((A.arrayP + 8) :> terminator)
        @@ Put32(im, A.arrayP + 12, A.listQ)

\* The scenarios: word size and byte order of the images, the flags of class
\* X, where its class_ro lives, which of its pointers is broken, and the
\* shape of the ObjC1 class P.
FlagChoices(byteorder) ==
    IF byteorder = "direct"
    THEN {{}, {RW_REALIZED}, {RW_REALIZED, RW_COPIED_RO}, {RW_COPIED_RO}}
    ELSE {{}, {7}, {7, 3}, {RW_REALIZED}}

Scenario(o, flags, ro, break, o1) ==
    [m64 |-> o.m64, byteorder |-> o.byteorder, xFlags |-> flags, xRO |-> ro,
     xBreak |-> break, o1 |-> o1]

RealizedFor(o) == IF o.byteorder = "direct" THEN {RW_REALIZED} ELSE {7}

CopiedFor(o) == IF o.byteorder = "direct" THEN {RW_REALIZED, RW_COPIED_RO} ELSE {7, 3}

Order32 == [m64 |-> FALSE, byteorder |-> "direct"]
Order64 == [m64 |-> TRUE, byteorder |-> "direct"]
OrderSwapped == [m64 |-> FALSE, byteorder |-> "swapped"]

\* Every flags choice with every place of class_ro for the 32-bit image of
\* the host's byte order; for the other two a selection; the broken
\* pointers and the ObjC1 shapes mostly for the first.
Scenarios ==
    {Scenario(Order32, f, r, "none", "single") :
        f \in FlagChoices("direct"), r \in {"const", "heap", "unmapped"}}
    \cup UNION {{Scenario(o, f, r, "none", "single") :
                    f \in {RealizedFor(o), CopiedFor(o)}, r \in {"const", "heap"}} :
                 o \in {Order64, OrderSwapped}}
    \cup {Scenario(Order64, {}, "const", "none", "single"),
          Scenario(OrderSwapped, {}, "const", "none", "single"),
          Scenario(OrderSwapped, {RW_REALIZED}, "const", "none", "single")}
    \cup {Scenario(Order32, RealizedFor(Order32), "const", b, "single") :
        b \in {"name", "methods", "nomethods", "classptr", "isa", "methname",
               "methname2", "isaself", "entsize", "rw"}}
    \cup {Scenario(Order64, RealizedFor(Order64), "const", b, "single") :
        b \in {"methods", "rw"}}
    \cup {Scenario(Order32, RealizedFor(Order32), "const", "none", v) :
        v \in {"array", "arrayEnd", "arrayOpen", "isaCycle", "nomethods", "badclass",
               "badname", "absent"}}
    \cup {Scenario(OrderSwapped, RealizedFor(OrderSwapped), "const", "none", "array")}

Mem(s) == Mem1(s) @@ Mem2(s) @@ Mem3(s)

RECURSIVE SetToSeq(_)
SetToSeq(S) ==
    IF S = {}
    THEN <<>>
    ELSE LET x == CHOOSE y \in S : TRUE IN <<x>> \o SetToSeq(S \ {x})

\* The scenarios, numbered, and the task memory each of them fixes.
ScenarioList == SetToSeq(Scenarios)

AllMems == [i \in 1 .. Len(ScenarioList) |-> Mem(ScenarioList[i])] @@ <<>>

\* The scenario and the task's memory of this behaviour.
Sc == ScenarioList[scen]

TaskMem == mem

----------------------------------------------------------------------------
(* The async memory reader and the Mach-O view, as the parser uses them.   *)

\* The sections of the images.
Sections(image) ==
    CASE image.id = "img2" ->
           (<<"__DATA", "__objc_const">> :> [task_address |-> A.const2, length |-> 1024])
           @@ (<<"__DATA", "__objc_classlist">> :>
                 [task_address |-> A.classlist2, length |-> 2 * PointerSize(image)])
           @@ (<<"__DATA", "__objc_data">> :> [task_address |-> A.classX, length |-> 160])
      [] image.id = "img3" ->
           (<<"__DATA", "__objc_const">> :> [task_address |-> A.const3, length |-> 256])
           @@ (<<"__DATA", "__objc_classlist">> :>
                 [task_address |-> A.classlist3, length |-> PointerSize(image)])
           @@ (<<"__DATA", "__objc_data">> :> [task_address |-> A.classZ, length |-> 80])
      [] OTHER ->
           IF Sc.o1 = "absent"
           THEN [x \in {} |-> 0]
           ELSE (<<"__OBJC", "__module_info">> :>
                   [task_address |-> A.moduleInfo, length |-> 32])

WordsOf(addr, len) == {addr + 4 * i : i \in 0 .. ((len + 3) \div 4) - 1}

\* plcrash_async_read_addr: the error a copy of len bytes at addr ends with.
\* An address the task never mapped is not found; a region the task has
\* taken away is an access failure.
plcrash_async_read_addr(addr, len) ==
    IF \E a \in WordsOf(addr, len) : a \notin DOMAIN TaskMem
    THEN PLCRASH_ENOTFOUND
    ELSE IF \E a \in WordsOf(addr, len) : Region(a) \in unreadable
         THEN PLCRASH_EACCESS
         ELSE PLCRASH_ESUCCESS

\* plcrash_async_mobject_remap_address: whether the window lies inside the
\* memory object (a non-NULL result).
plcrash_async_mobject_remap_address(mobj, address, offset, length) ==
    /\ address + offset >= mobj.task_address
    /\ address + offset + length <= mobj.task_address + mobj.length

\* plcrash_async_macho_string_init: the error code.
plcrash_async_macho_string_init(image, address) ==
    IF address \in DOMAIN Strings THEN PLCRASH_ESUCCESS ELSE PLCRASH_ENOTFOUND

\* plcrash_async_macho_map_section: the error code and the memory object.
\* The section is located by name first: one the image does not have is
\* PLCRASH_ENOTFOUND.  mapFault names the section whose mapping fails in
\* this call, if any.
plcrash_async_macho_map_section(image, segname, sectname, mapFault) ==
    IF <<segname, sectname>> \notin DOMAIN Sections(image)
    THEN [err |-> PLCRASH_ENOTFOUND, mobj |-> NoMobj]
    ELSE IF mapFault.section = sectname
    THEN [err |-> mapFault.err, mobj |-> NoMobj]
    ELSE [err |-> PLCRASH_ESUCCESS,
          mobj |-> [task_address |-> Sections(image)[<<segname, sectname>>].task_address,
                    length |-> Sections(image)[<<segname, sectname>>].length,
                    image |-> image.id]]

\* A word of task memory, through a copy or through a mapping.
MemWord(a) == IF a \in DOMAIN TaskMem THEN TaskMem[a] ELSE ZeroWord

\* A 32-bit field and a pointer-sized field of a structure at address a,
\* after the image's byte-order swap, as values.
Field32(image, a, off) == HostValue(swap32(image, MemWord(a + off)))

Field64(image, a, off) ==
    HostValue64(swap64(image, <<MemWord(a + off), MemWord(a + off + 4)>>))

PtrField(image, a, off) ==
    IF image.m64 THEN Field64(image, a, off) ELSE Field32(image, a, off)

----------------------------------------------------------------------------
(* The two callbacks of plcrash_async_objc_find_method.                    *)

\* A search callback that keeps the last method at or below searchIMP, not
\* the greatest.
pl_async_objc_find_method_search_callback_last(cb, isClassMethod, className, methodName, imp) ==
    IF imp <= cb.searchIMP
    THEN [cb EXCEPT !.bestIMP = imp]
    ELSE cb

pl_async_objc_find_method_search_callback(cb, isClassMethod, className, methodName, imp) ==
    IF imp >= cb.bestIMP /\ imp <= cb.searchIMP
    THEN [cb EXCEPT !.bestIMP = imp]
    ELSE cb

\* A call callback that leaves outerCallback set after invoking it.
pl_async_objc_find_method_call_callback_keeps_outer(cb, isClassMethod, className, methodName, imp) ==
    IF imp = cb.searchIMP /\ cb.outerCallback
    THEN [cb EXCEPT !.calls = Append(@, <<isClassMethod, className, methodName, imp>>)]
    ELSE cb

pl_async_objc_find_method_call_callback(cb, isClassMethod, className, methodName, imp) ==
    IF imp = cb.searchIMP /\ cb.outerCallback
    THEN [cb EXCEPT !.calls = Append(@, <<isClassMethod, className, methodName, imp>>),
                    !.outerCallback = FALSE]
    ELSE cb

\* callback(isMetaClass, &className, &methodName, imp, ctx); every method
\* handed to the callback is also noted in cb.emitted.
Callback(cb, isMeta, className, methodName, imp) ==
    LET noted == [cb EXCEPT !.emitted = Append(@, <<isMeta, className, methodName, imp>>)]
    IN  IF cb.fn = "search"
        THEN pl_async_objc_find_method_search_callback(noted, isMeta, className, methodName, imp)
        ELSE pl_async_objc_find_method_call_callback(noted, isMeta, className, methodName, imp)

----------------------------------------------------------------------------
(* pl_async_objc_parse_objc2_class.                                        *)
(*                                                                         *)
(* The parser's state is threaded through as st: the cache object (ctx),   *)
(* the callback's context (cb), the log of what the parser did (ev) and    *)
(* whether the process has trapped.  env holds what the surroundings       *)
(* decide during one call: whether vm_allocate succeeds, which section     *)
(* mapping fails, and what a read through a NULL pointer does.             *)

\* The log ends where the process traps.
Note(st, e) == IF st.trap THEN st ELSE [st EXCEPT !.ev = Append(@, e)]

\* The method loop: one iteration per entry, cursor advancing by entsize.
RECURSIVE Objc2MethodLoop(_, _, _, _, _, _, _, _)
Objc2MethodLoop(image, st, isMeta, className, cursor, entsize, i, count) ==
    IF i >= count
    THEN [err |-> PLCRASH_ESUCCESS, st |-> st]
    ELSE LET methodNamePtr == PtrField(image, cursor, Method2_name)
             err == plcrash_async_macho_string_init(image, methodNamePtr)
             imp == PtrField(image, cursor, Method2_imp(image))
             \* the method structure at cursor is read; the range the remap
             \* of the list validated began i entries before it
             read == Note(st, [kind |-> "method2", cursor |-> cursor,
                               start |-> cursor - i * entsize,
                               length |-> entsize * count])
         IN  IF err # PLCRASH_ESUCCESS
             THEN [err |-> err, st |-> read]
             ELSE Objc2MethodLoop(image,
                      [read EXCEPT !.cb = Callback(@, isMeta, className,
                                                   Strings[methodNamePtr], imp)],
                      isMeta, className, cursor + entsize, entsize, i + 1, count)

\* A class body that takes entsize as the header holds it, flag bits and all.
Objc2ClassBody_entsize_unmasked(image, st, isMeta, roAddr) ==
    LET classNamePtr == PtrField(image, roAddr, RO_name(image))
        nameErr == plcrash_async_macho_string_init(image, classNamePtr)
        methodsPtr == PtrField(image, roAddr, RO_baseMethods(image))
        const == st.ctx.objcConstMobj
        entsize == Field32(image, methodsPtr, Header_entsize)
        count == Field32(image, methodsPtr, Header_count)
        methodListStart == methodsPtr + Header_size
        methodListLength == entsize * count
    IN  IF nameErr # PLCRASH_ESUCCESS
        THEN [err |-> nameErr, st |-> st]
        ELSE IF methodsPtr = 0
        THEN [err |-> nameErr, st |-> st]
        ELSE IF ~plcrash_async_mobject_remap_address(const, methodsPtr, 0, Header_size)
        THEN [err |-> nameErr, st |-> st]
        ELSE IF ~plcrash_async_mobject_remap_address(const, methodListStart, 0,
                                                     methodListLength)
        THEN [err |-> nameErr, st |-> st]
        ELSE Objc2MethodLoop(image, st, isMeta, Strings[classNamePtr],
                             methodListStart, entsize, 0, count)

\* A class body that reports every method as a method of a class, never of
\* a metaclass.
Objc2ClassBody_never_meta(image, st, isMeta, roAddr) ==
    LET classNamePtr == PtrField(image, roAddr, RO_name(image))
        nameErr == plcrash_async_macho_string_init(image, classNamePtr)
        methodsPtr == PtrField(image, roAddr, RO_baseMethods(image))
        const == st.ctx.objcConstMobj
        entsize == LET e == Field32(image, methodsPtr, Header_entsize) IN e - (e % 4)
        count == Field32(image, methodsPtr, Header_count)
        methodListStart == methodsPtr + Header_size
        methodListLength == entsize * count
    IN  IF nameErr # PLCRASH_ESUCCESS
        THEN [err |-> nameErr, st |-> st]
        ELSE IF methodsPtr = 0
        THEN [err |-> nameErr, st |-> st]
        ELSE IF ~plcrash_async_mobject_remap_address(const, methodsPtr, 0, Header_size)
        THEN [err |-> nameErr, st |-> st]
        ELSE IF ~plcrash_async_mobject_remap_address(const, methodListStart, 0,
                                                     methodListLength)
        THEN [err |-> nameErr, st |-> st]
        ELSE Objc2MethodLoop(image, st, FALSE, Strings[classNamePtr],
                             methodListStart, entsize, 0, count)

\* From the class name to the end of the method list, class_ro being the
\* structure at roAddr.
Objc2ClassBody(image, st, isMeta, roAddr) ==
    LET classNamePtr == PtrField(image, roAddr, RO_name(image))
        nameErr == plcrash_async_macho_string_init(image, classNamePtr)
        methodsPtr == PtrField(image, roAddr, RO_baseMethods(image))
        const == st.ctx.objcConstMobj
        entsize == LET e == Field32(image, methodsPtr, Header_entsize) IN e - (e % 4)
        count == Field32(image, methodsPtr, Header_count)
        methodListStart == methodsPtr + Header_size
        methodListLength == entsize * count
    IN  IF nameErr # PLCRASH_ESUCCESS
        THEN [err |-> nameErr, st |-> st]
        ELSE IF methodsPtr = 0
        THEN [err |-> nameErr, st |-> st]
        ELSE IF ~plcrash_async_mobject_remap_address(const, methodsPtr, 0, Header_size)
        THEN [err |-> nameErr, st |-> st]
        ELSE IF ~plcrash_async_mobject_remap_address(const, methodListStart, 0,
                                                     methodListLength)
        THEN [err |-> nameErr, st |-> st]
        ELSE Objc2MethodLoop(image, st, isMeta, Strings[classNamePtr],
                             methodListStart, entsize, 0, count)

\* A cache-miss branch that does not test RW_REALIZED.
Objc2Miss_unrealized_too(image, ctx, dataPtr, env) ==
    LET err == plcrash_async_read_addr(dataPtr, RW_size(image))
        flags == MemWord(dataPtr + RW_flags)
        data_ro == PtrField(image, dataPtr, RW_data_ro)
        quit(e) == [go |-> FALSE, err |-> e, ctx |-> ctx, roSrc |-> "none",
                    roAddr |-> 0, cacheSet |-> FALSE]
    IN  IF err # PLCRASH_ESUCCESS
        THEN quit(err)
        ELSE IF TestBit(flags, RW_COPIED_RO)
        THEN IF plcrash_async_read_addr(data_ro, RO_size(image)) # PLCRASH_ESUCCESS
             THEN quit(err)
             ELSE [go |-> TRUE, err |-> err, roSrc |-> "copy", roAddr |-> data_ro,
                   ctx |-> cache_set(ctx, dataPtr, data_ro, env.vmAllocOK),
                   cacheSet |-> TRUE]
        ELSE IF ~plcrash_async_mobject_remap_address(ctx.objcConstMobj, data_ro, 0,
                                                     RO_size(image))
             THEN quit(err)
             ELSE [go |-> TRUE, err |-> err, roSrc |-> "remap", roAddr |-> data_ro,
                   ctx |-> cache_set(ctx, dataPtr, data_ro, env.vmAllocOK),
                   cacheSet |-> TRUE]

\* A cache-miss branch that does not test RW_COPIED_RO and always remaps.
Objc2Miss_remap_only(image, ctx, dataPtr, env) ==
    LET err == plcrash_async_read_addr(dataPtr, RW_size(image))
        flags == MemWord(dataPtr + RW_flags)
        data_ro == PtrField(image, dataPtr, RW_data_ro)
        quit(e) == [go |-> FALSE, err |-> e, ctx |-> ctx, roSrc |-> "none",
                    roAddr |-> 0, cacheSet |-> FALSE]
    IN  IF err # PLCRASH_ESUCCESS
        THEN quit(err)
        ELSE IF ~TestBit(flags, RW_REALIZED)
        THEN quit(err)
        ELSE IF ~plcrash_async_mobject_remap_address(ctx.objcConstMobj, data_ro, 0,
                                                     RO_size(image))
             THEN quit(err)
             ELSE [go |-> TRUE, err |-> err, roSrc |-> "remap", roAddr |-> data_ro,
                   ctx |-> cache_set(ctx, dataPtr, data_ro, env.vmAllocOK),
                   cacheSet |-> TRUE]

\* The cache-miss branch: read class_rw, test its flags, validate data_ro
\* and add the cache entry.  go says whether the parse of the class goes on
\* to read class_ro.
Objc2Miss(image, ctx, dataPtr, env) ==
    LET err == plcrash_async_read_addr(dataPtr, RW_size(image))
        flags == MemWord(dataPtr + RW_flags)
        data_ro == PtrField(image, dataPtr, RW_data_ro)
        quit(e) == [go |-> FALSE, err |-> e, ctx |-> ctx, roSrc |-> "none",
                    roAddr |-> 0, cacheSet |-> FALSE]
    IN  IF err # PLCRASH_ESUCCESS
        THEN quit(err)
        ELSE IF ~TestBit(flags, RW_REALIZED)
        THEN quit(err)
        ELSE IF TestBit(flags, RW_COPIED_RO)
        THEN IF plcrash_async_read_addr(data_ro, RO_size(image)) # PLCRASH_ESUCCESS
             THEN quit(err)
             ELSE [go |-> TRUE, err |-> err, roSrc |-> "copy", roAddr |-> data_ro,
                   ctx |-> cache_set(ctx, dataPtr, data_ro, env.vmAllocOK),
                   cacheSet |-> TRUE]
        ELSE IF ~plcrash_async_mobject_remap_address(ctx.objcConstMobj, data_ro, 0,
                                                     RO_size(image))
             THEN quit(err)
             ELSE [go |-> TRUE, err |-> err, roSrc |-> "remap", roAddr |-> data_ro,
                   ctx |-> cache_set(ctx, dataPtr, data_ro, env.vmAllocOK),
                   cacheSet |-> TRUE]

\* The cache-hit branch: the mapping first, then the copy; when both fail
\* the classDataRO pointers stay NULL and the parse goes on all the same.
Objc2Hit(image, ctx, cached_data_ro_addr) ==
    [go |-> TRUE, err |-> "unset", ctx |-> ctx, cacheSet |-> FALSE,
     roAddr |-> cached_data_ro_addr,
     roSrc |->
        IF plcrash_async_mobject_remap_address(ctx.objcConstMobj, cached_data_ro_addr,
                                               0, RO_size(image))
        THEN "remap"
        ELSE IF plcrash_async_read_addr(cached_data_ro_addr, RO_size(image))
                = PLCRASH_ESUCCESS
             THEN "copy"
             ELSE "null"]

pl_async_objc_parse_objc2_class(image, st, classAddr, isMetaClass, env) ==
    Let(LET word == PtrField(image, classAddr, Class2_data_rw(image))
        IN  word - (word % 4), LAMBDA dataPtr :
    Let(cache_lookup(st.ctx, dataPtr), LAMBDA cached_data_ro_addr :
    Let(IF cached_data_ro_addr # 0
        THEN Objc2Hit(image, st.ctx, cached_data_ro_addr)
        ELSE Objc2Miss(image, st.ctx, dataPtr, env), LAMBDA ro :
    \* A read through the NULL pointer traps, or yields what page zero holds.
    Let(IF ~ro.go
        THEN [err |-> ro.err, st |-> [st EXCEPT !.ctx = ro.ctx]]
        ELSE IF ro.roSrc = "null" /\ env.ub = "trap"
        THEN [err |-> "trap", st |-> [st EXCEPT !.ctx = ro.ctx, !.trap = TRUE]]
        ELSE Objc2ClassBody(image, [st EXCEPT !.ctx = ro.ctx], isMetaClass,
                            IF ro.roSrc = "null" THEN 0 ELSE ro.roAddr), LAMBDA body :
    \* What the log keeps of the class: where its class_ro is said to be
    \* and whether that place is inside __objc_const or readable.
    Let(IF cached_data_ro_addr # 0
        THEN cached_data_ro_addr
        ELSE PtrField(image, dataPtr, RW_data_ro), LAMBDA target :
        [err |-> body.err,
         st |-> [body.st EXCEPT !.ev = Append(@,
                [kind |-> "class2", image |-> image.id, isMeta |-> isMetaClass,
                 classAddr |-> classAddr, dataPtr |-> dataPtr,
                 hit |-> cached_data_ro_addr # 0,
                 rwErr |-> IF cached_data_ro_addr # 0 THEN "unread"
                           ELSE plcrash_async_read_addr(dataPtr, RW_size(image)),
                 flags |-> MemWord(dataPtr + RW_flags),
                 roInConst |-> plcrash_async_mobject_remap_address(
                                   st.ctx.objcConstMobj, target, 0, RO_size(image)),
                 roReadable |-> plcrash_async_read_addr(target, RO_size(image))
                                    = PLCRASH_ESUCCESS,
                 roSrc |-> ro.roSrc, roAddr |-> ro.roAddr, roDeref |-> ro.go,
                 cacheSet |-> ro.cacheSet,
                 cachedAfter |-> cache_lookup(body.st.ctx, dataPtr),
                 from |-> Len(st.cb.emitted), to |-> Len(body.st.cb.emitted),
                 err |-> body.err])]])))))

----------------------------------------------------------------------------
(* free_mapped_sections and map_sections.                                  *)

\* A free_mapped_sections that leaves objcConstMobjInitialized set.
free_mapped_sections_keeps_flag(st) ==
    Let(IF st.ctx.objcConstMobjInitialized
        THEN Note(st, [kind |-> "free", mobj |-> "objcConstMobj",
                       image |-> st.ctx.objcConstMobj.image])
        ELSE st, LAMBDA s1 :
    Let(IF s1.ctx.classMobjInitialized
        THEN Note([s1 EXCEPT !.ctx.classMobjInitialized = FALSE,
                             !.ctx.classMobj = NoMobj],
                  [kind |-> "free", mobj |-> "classMobj",
                   image |-> s1.ctx.classMobj.image])
        ELSE s1, LAMBDA s2 :
        IF s2.ctx.objcDataMobjInitialized
        THEN Note([s2 EXCEPT !.ctx.objcDataMobjInitialized = FALSE,
                             !.ctx.objcDataMobj = NoMobj],
                  [kind |-> "free", mobj |-> "objcDataMobj",
                   image |-> s2.ctx.objcDataMobj.image])
        ELSE s2))

free_mapped_sections(st) ==
    Let(IF st.ctx.objcConstMobjInitialized
        THEN Note([st EXCEPT !.ctx.objcConstMobjInitialized = FALSE,
                             !.ctx.objcConstMobj = NoMobj],
                  [kind |-> "free", mobj |-> "objcConstMobj",
                   image |-> st.ctx.objcConstMobj.image])
        ELSE st, LAMBDA s1 :
    Let(IF s1.ctx.classMobjInitialized
        THEN Note([s1 EXCEPT !.ctx.classMobjInitialized = FALSE,
                             !.ctx.classMobj = NoMobj],
                  [kind |-> "free", mobj |-> "classMobj",
                   image |-> s1.ctx.classMobj.image])
        ELSE s1, LAMBDA s2 :
        IF s2.ctx.objcDataMobjInitialized
        THEN Note([s2 EXCEPT !.ctx.objcDataMobjInitialized = FALSE,
                             !.ctx.objcDataMobj = NoMobj],
                  [kind |-> "free", mobj |-> "objcDataMobj",
                   image |-> s2.ctx.objcDataMobj.image])
        ELSE s2))

Mapped(st, name, image) == Note(st, [kind |-> "map", mobj |-> name, image |-> image.id])

\* A map_sections that does not reset lastImage before it maps.
map_sections_keeps_lastImage(image, st, env) ==
    IF image.id = st.ctx.lastImage
    THEN [err |-> PLCRASH_ESUCCESS, st |-> st]
    ELSE
    Let(free_mapped_sections(st), LAMBDA s0 :
    Let(plcrash_async_macho_map_section(image, "__DATA", "__objc_const", env.mapFault),
        LAMBDA m1 :
        IF m1.err # PLCRASH_ESUCCESS THEN [err |-> m1.err, st |-> s0] ELSE
    Let(Mapped([s0 EXCEPT !.ctx.objcConstMobj = m1.mobj,
                          !.ctx.objcConstMobjInitialized = TRUE],
               "objcConstMobj", image), LAMBDA s1 :
    Let(plcrash_async_macho_map_section(image, "__DATA", "__objc_classlist", env.mapFault),
        LAMBDA m2 :
        IF m2.err # PLCRASH_ESUCCESS THEN [err |-> m2.err, st |-> s1] ELSE
    Let(Mapped([s1 EXCEPT !.ctx.classMobj = m2.mobj,
                          !.ctx.classMobjInitialized = TRUE],
               "classMobj", image), LAMBDA s2 :
    Let(plcrash_async_macho_map_section(image, "__DATA", "__objc_data", env.mapFault),
        LAMBDA m3 :
        IF m3.err # PLCRASH_ESUCCESS THEN [err |-> m3.err, st |-> s2] ELSE
        [err |-> PLCRASH_ESUCCESS,
         st |-> [Mapped([s2 EXCEPT !.ctx.objcDataMobj = m3.mobj,
                                   !.ctx.objcDataMobjInitialized = TRUE],
                        "objcDataMobj", image)
                 EXCEPT !.ctx.lastImage = image.id]]))))))

map_sections(image, st, env) ==
    IF image.id = st.ctx.lastImage
    THEN [err |-> PLCRASH_ESUCCESS, st |-> st]
    ELSE
    Let([free_mapped_sections(st) EXCEPT !.ctx.lastImage = "NULL"], LAMBDA s0 :
    Let(plcrash_async_macho_map_section(image, "__DATA", "__objc_const", env.mapFault),
        LAMBDA m1 :
        IF m1.err # PLCRASH_ESUCCESS THEN [err |-> m1.err, st |-> s0] ELSE
    Let(Mapped([s0 EXCEPT !.ctx.objcConstMobj = m1.mobj,
                          !.ctx.objcConstMobjInitialized = TRUE],
               "objcConstMobj", image), LAMBDA s1 :
    Let(plcrash_async_macho_map_section(image, "__DATA", "__objc_classlist", env.mapFault),
        LAMBDA m2 :
        IF m2.err # PLCRASH_ESUCCESS THEN [err |-> m2.err, st |-> s1] ELSE
    Let(Mapped([s1 EXCEPT !.ctx.classMobj = m2.mobj,
                          !.ctx.classMobjInitialized = TRUE],
               "classMobj", image), LAMBDA s2 :
    Let(plcrash_async_macho_map_section(image, "__DATA", "__objc_data", env.mapFault),
        LAMBDA m3 :
        IF m3.err # PLCRASH_ESUCCESS THEN [err |-> m3.err, st |-> s2] ELSE
        [err |-> PLCRASH_ESUCCESS,
         st |-> [Mapped([s2 EXCEPT !.ctx.objcDataMobj = m3.mobj,
                                   !.ctx.objcDataMobjInitialized = TRUE],
                        "objcDataMobj", image)
                 EXCEPT !.ctx.lastImage = image.id]]))))))

----------------------------------------------------------------------------
(* pl_async_objc_parse_from_data_section.                                  *)

\* The loop over the class list; err is the error code held on entry to
\* iteration i.
RECURSIVE Objc2ClassLoop(_, _, _, _, _, _)
Objc2ClassLoop(image, st, env, i, classCount, err) ==
    IF i >= classCount
    THEN [err |-> err, st |-> st]
    ELSE
    Let(PtrField(image, st.ctx.classMobj.task_address + i * PointerSize(image), 0),
        LAMBDA ptr :
        IF ~plcrash_async_mobject_remap_address(st.ctx.objcDataMobj, ptr, 0,
                                                Class2_size(image))
        THEN [err |-> err, st |-> Note(st, [kind |-> "stop", at |-> "class", index |-> i])]
        ELSE
    Let(pl_async_objc_parse_objc2_class(image, st, ptr, FALSE, env), LAMBDA c :
        IF c.err # PLCRASH_ESUCCESS
        THEN c
        ELSE
    Let(PtrField(image, ptr, Class2_isa), LAMBDA isa :
        IF ~plcrash_async_mobject_remap_address(st.ctx.objcDataMobj, isa, 0,
                                                Class2_size(image))
        THEN [err |-> c.err,
              st |-> Note(c.st, [kind |-> "stop", at |-> "metaclass", index |-> i])]
        ELSE
    Let(pl_async_objc_parse_objc2_class(image, c.st, isa, TRUE, env), LAMBDA m :
        IF m.err # PLCRASH_ESUCCESS
        THEN m
        ELSE Objc2ClassLoop(image, m.st, env, i + 1, classCount, m.err)))))

pl_async_objc_parse_from_data_section(image, st, env) ==
    Let(map_sections(image, st, env), LAMBDA mapped :
        LET classMobj == mapped.st.ctx.classMobj
            classCount == classMobj.length \div PointerSize(image)
        IN  IF mapped.err # PLCRASH_ESUCCESS
            THEN mapped
            ELSE IF ~plcrash_async_mobject_remap_address(classMobj, classMobj.task_address,
                                                         0, classMobj.length)
            THEN mapped
            ELSE Objc2ClassLoop(image, mapped.st, env, 0, classCount, mapped.err))

----------------------------------------------------------------------------
(* pl_async_parse_obj1_class and pl_async_objc_parse_from_module_info.     *)

\* The loop over the methods of one method_list at thisListPtr.
RECURSIVE Objc1MethodLoop(_, _, _, _, _, _, _)
Objc1MethodLoop(image, st, isMeta, className, thisListPtr, i, count) ==
    IF i >= count
    THEN [err |-> PLCRASH_ESUCCESS, st |-> st]
    ELSE LET methodPtr == thisListPtr + MethodList1.size + i * Method1.size
             readErr == plcrash_async_read_addr(methodPtr, Method1.size)
             methodNamePtr == Field32(image, methodPtr, Method1.name)
             nameErr == plcrash_async_macho_string_init(image, methodNamePtr)
             imp == Field32(image, methodPtr, Method1.imp)
         IN  IF readErr # PLCRASH_ESUCCESS
             THEN [err |-> readErr, st |-> st]
             ELSE IF nameErr # PLCRASH_ESUCCESS
             THEN [err |-> nameErr, st |-> st]
             ELSE Objc1MethodLoop(image,
                      [st EXCEPT !.cb = Callback(@, isMeta, className,
                                                 Strings[methodNamePtr], imp)],
                      isMeta, className, thisListPtr, i + 1, count)

\* A cursor that goes to every other entry of the array.
Objc1Advance_by_two(methodListCursor) == methodListCursor + 8

\* methodListCursor += sizeof(ptr).
Objc1Advance(methodListCursor) == methodListCursor + 4

\* The while (true) loop over the method lists; err is the error code held
\* on entry to the iteration.
RECURSIVE Objc1ListLoop(_, _, _, _, _, _, _)
Objc1ListLoop(image, st, isMeta, className, methodListCursor, hasMultipleMethodLists, err) ==
    Let(IF hasMultipleMethodLists
        THEN plcrash_async_read_addr(methodListCursor, 4)
        ELSE PLCRASH_ESUCCESS, LAMBDA ptrErr :
    Let(swap32(image, MemWord(methodListCursor)), LAMBDA ptrWord :
    Let(IF hasMultipleMethodLists
        THEN Note(st, [kind |-> "listptr", addr |-> methodListCursor,
                       isMeta |-> isMeta, word |-> ptrWord, err |-> ptrErr])
        ELSE st, LAMBDA st1 :
    Let(IF hasMultipleMethodLists THEN HostValue(ptrWord) ELSE methodListCursor,
        LAMBDA thisListPtr :
        IF hasMultipleMethodLists /\ ptrErr # PLCRASH_ESUCCESS
        THEN [err |-> ptrErr, st |-> st1]
        ELSE IF hasMultipleMethodLists
                /\ (ptrWord = ZeroWord \/ ptrWord = END_OF_METHODS_LIST)
        THEN [err |-> ptrErr, st |-> st1]
        ELSE IF ~hasMultipleMethodLists /\ thisListPtr = 0
        THEN [err |-> err, st |-> st1]
        ELSE
    Let(plcrash_async_read_addr(thisListPtr, MethodList1.size), LAMBDA listErr :
        IF listErr # PLCRASH_ESUCCESS
        THEN [err |-> listErr, st |-> st1]
        ELSE
    Let(Objc1MethodLoop(image, st1, isMeta, className, thisListPtr, 0,
                        Field32(image, thisListPtr, MethodList1.count)), LAMBDA methods :
        IF methods.err # PLCRASH_ESUCCESS
        THEN methods
        ELSE IF ~hasMultipleMethodLists
        THEN methods
        ELSE Objc1ListLoop(image, methods.st, isMeta, className,
                           Objc1Advance(methodListCursor),
                           hasMultipleMethodLists, listErr)))))))

\* A class parse that takes the methods pointer for a single list whatever
\* the info field says.
pl_async_parse_obj1_class_single_list(image, st, classAddr, isMetaClass) ==
    Let(Field32(image, classAddr, Class1.name), LAMBDA namePtr :
    Let(plcrash_async_macho_string_init(image, namePtr), LAMBDA err :
    Let(IF err # PLCRASH_ESUCCESS
        THEN [err |-> err, st |-> st]
        ELSE Objc1ListLoop(image, st, isMetaClass, Strings[namePtr],
                 Field32(image, classAddr, Class1.methods), FALSE, err), LAMBDA out :
        [err |-> out.err,
         st |-> Note(out.st, [kind |-> "class1", image |-> image.id,
                              isMeta |-> isMetaClass, classAddr |-> classAddr,
                              from |-> Len(st.cb.emitted),
                              to |-> Len(out.st.cb.emitted), err |-> out.err])])))

\* class is the copy of the pl_objc1_class structure read at classAddr.
pl_async_parse_obj1_class(image, st, classAddr, isMetaClass) ==
    Let(Field32(image, classAddr, Class1.name), LAMBDA namePtr :
    Let(plcrash_async_macho_string_init(image, namePtr), LAMBDA err :
    Let(IF err # PLCRASH_ESUCCESS
        THEN [err |-> err, st |-> st]
        ELSE Objc1ListLoop(image, st, isMetaClass, Strings[namePtr],
                 Field32(image, classAddr, Class1.methods),
                 ~TestBit(swap32(image, MemWord(classAddr + Class1.info)),
                          CLS_NO_METHOD_ARRAY),
                 err), LAMBDA out :
        [err |-> out.err,
         st |-> Note(out.st, [kind |-> "class1", image |-> image.id,
                              isMeta |-> isMetaClass, classAddr |-> classAddr,
                              from |-> Len(st.cb.emitted),
                              to |-> Len(out.st.cb.emitted), err |-> out.err])])))

\* The loop over the classes of one symtab.
RECURSIVE Objc1ClassLoop(_, _, _, _, _, _)
Objc1ClassLoop(image, st, symtabPtr, i, classCount, err) ==
    IF i >= classCount
    THEN [err |-> err, st |-> st]
    ELSE
    Let(plcrash_async_read_addr(symtabPtr + Symtab1.size + i * 4, 4), LAMBDA cursorErr :
        IF cursorErr # PLCRASH_ESUCCESS
        THEN [err |-> cursorErr,
              st |-> Note(st, [kind |-> "stop", at |-> "cursor1", index |-> i])]
        ELSE
    Let(Field32(image, symtabPtr + Symtab1.size + i * 4, 0), LAMBDA classPtr :
    Let(plcrash_async_read_addr(classPtr, Class1.size), LAMBDA classErr :
        IF classErr # PLCRASH_ESUCCESS
        THEN [err |-> classErr,
              st |-> Note(st, [kind |-> "stop", at |-> "class1", index |-> i])]
        ELSE
    Let(pl_async_parse_obj1_class(image, st, classPtr, FALSE), LAMBDA c :
        IF c.err # PLCRASH_ESUCCESS THEN c
        ELSE
    Let(Field32(image, classPtr, Class1.isa), LAMBDA isa :
    Let(plcrash_async_read_addr(isa, Class1.size), LAMBDA metaErr :
        IF metaErr # PLCRASH_ESUCCESS
        THEN [err |-> metaErr,
              st |-> Note(c.st, [kind |-> "stop", at |-> "metaclass1", index |-> i])]
        ELSE
    Let(pl_async_parse_obj1_class(image, c.st, isa, TRUE), LAMBDA m :
        IF m.err # PLCRASH_ESUCCESS THEN m
        ELSE Objc1ClassLoop(image, m.st, symtabPtr, i + 1, classCount, m.err))))))))

\* symtab.cls_def_count: a 16-bit field, the low half of the word at its
\* offset in memory order.
ClsDefCount(image, symtabPtr) ==
    LET w == MemWord(symtabPtr + Symtab1.cls_def_count)
    IN  swap16(image, <<w[1], w[2]>>)

\* The loop over the module structures of the section.
RECURSIVE Objc1ModuleLoop(_, _, _, _, _)
Objc1ModuleLoop(image, st, moduleMobj, moduleIndex, err) ==
    IF moduleIndex >= moduleMobj.length \div Module1.size
    THEN [err |-> err, st |-> st]
    ELSE
    Let(Field32(image, moduleMobj.task_address + moduleIndex * Module1.size,
                Module1.symtab), LAMBDA symtabPtr :
        IF symtabPtr = 0
        THEN Objc1ModuleLoop(image, st, moduleMobj, moduleIndex + 1, err)
        ELSE
    Let(plcrash_async_read_addr(symtabPtr, Symtab1.size), LAMBDA symtabErr :
        IF symtabErr # PLCRASH_ESUCCESS
        THEN [err |-> symtabErr, st |-> st]
        ELSE
    Let(Objc1ClassLoop(image, st, symtabPtr, 0, ClsDefCount(image, symtabPtr),
                       symtabErr), LAMBDA classes :
        IF classes.err # PLCRASH_ESUCCESS
        THEN classes
        ELSE Objc1ModuleLoop(image, classes.st, moduleMobj, moduleIndex + 1,
                             classes.err))))

pl_async_objc_parse_from_module_info(image, st, env) ==
    Let(plcrash_async_macho_map_section(image, "__OBJC", "__module_info", env.mapFault),
        LAMBDA m :
        IF m.err # PLCRASH_ESUCCESS
        THEN [err |-> m.err, st |-> st]
        ELSE
    Let(IF ~plcrash_async_mobject_remap_address(m.mobj, m.mobj.task_address,
                                                0, Module1.size)
        THEN [err |-> PLCRASH_ENOTFOUND, st |-> Mapped(st, "moduleMobj", image)]
        ELSE Objc1ModuleLoop(image, Mapped(st, "moduleMobj", image), m.mobj, 0, m.err),
        LAMBDA r :
        \* cleanup: plcrash_async_mobject_free(&moduleMobj)
        [err |-> r.err,
         st |-> Note(r.st, [kind |-> "free", mobj |-> "moduleMobj",
                            image |-> image.id])]))

----------------------------------------------------------------------------
(* plcrash_async_objc_parse, plcrash_async_objc_find_method and            *)
(* plcrash_async_objc_cache_free.                                          *)

\* What the log keeps of the end of one path and of the whole parse.
ParseDone(path, r) ==
    Let(r, LAMBDA v :
        [err |-> v.err,
         st |-> Note(v.st, [kind |-> "done", path |-> path, err |-> v.err])])

Parsed(out) ==
    Let(out, LAMBDA v :
        [err |-> v.err,
         st |-> Note(v.st, [kind |-> "parsed", err |-> v.err,
                            gotObjC2Info |-> v.st.ctx.gotObjC2Info])])

\* A parse that takes the ObjC1 path whatever gotObjC2Info says.
plcrash_async_objc_parse_objc1_always(image, st, env) ==
    Let(Note(st, [kind |-> "parse", image |-> image.id,
                  gotObjC2Info |-> st.ctx.gotObjC2Info]), LAMBDA s0 :
    Let(ParseDone("objc1",
            pl_async_objc_parse_from_module_info(image,
                Note(s0, [kind |-> "try", path |-> "objc1", image |-> image.id]),
                env)), LAMBDA r1 :
        IF r1.err # PLCRASH_ENOTFOUND
        THEN Parsed(r1)
        ELSE
    Let(ParseDone("objc2",
            pl_async_objc_parse_from_data_section(image,
                Note(r1.st, [kind |-> "try", path |-> "objc2", image |-> image.id]),
                env)), LAMBDA r2 :
        IF r2.err = PLCRASH_ESUCCESS
        THEN Parsed([err |-> r2.err, st |-> [r2.st EXCEPT !.ctx.gotObjC2Info = TRUE]])
        ELSE Parsed(r2))))

\* A parse that goes on to the ObjC2 path after any ObjC1 failure.
plcrash_async_objc_parse_any_objc1_error(image, st, env) ==
    Let(Note(st, [kind |-> "parse", image |-> image.id,
                  gotObjC2Info |-> st.ctx.gotObjC2Info]), LAMBDA s0 :
    Let(IF ~st.ctx.gotObjC2Info
        THEN ParseDone("objc1",
                 pl_async_objc_parse_from_module_info(image,
                     Note(s0, [kind |-> "try", path |-> "objc1", image |-> image.id]),
                     env))
        ELSE [err |-> PLCRASH_ENOTFOUND, st |-> s0], LAMBDA r1 :
        IF r1.err = PLCRASH_ESUCCESS
        THEN Parsed(r1)
        ELSE
    Let(ParseDone("objc2",
            pl_async_objc_parse_from_data_section(image,
                Note(r1.st, [kind |-> "try", path |-> "objc2", image |-> image.id]),
                env)), LAMBDA r2 :
        IF r2.err = PLCRASH_ESUCCESS
        THEN Parsed([err |-> r2.err, st |-> [r2.st EXCEPT !.ctx.gotObjC2Info = TRUE]])
        ELSE Parsed(r2))))

plcrash_async_objc_parse(image, st, env) ==
    Let(Note(st, [kind |-> "parse", image |-> image.id,
                  gotObjC2Info |-> st.ctx.gotObjC2Info]), LAMBDA s0 :
    Let(IF ~st.ctx.gotObjC2Info
        THEN ParseDone("objc1",
                 pl_async_objc_parse_from_module_info(image,
                     Note(s0, [kind |-> "try", path |-> "objc1", image |-> image.id]),
                     env))
        ELSE [err |-> PLCRASH_ENOTFOUND, st |-> s0], LAMBDA r1 :
        IF r1.err # PLCRASH_ENOTFOUND
        THEN Parsed(r1)
        ELSE
    Let(ParseDone("objc2",
            pl_async_objc_parse_from_data_section(image,
                Note(r1.st, [kind |-> "try", path |-> "objc2", image |-> image.id]),
                env)), LAMBDA r2 :
        IF r2.err = PLCRASH_ESUCCESS
        THEN Parsed([err |-> r2.err, st |-> [r2.st EXCEPT !.ctx.gotObjC2Info = TRUE]])
        ELSE Parsed(r2))))

NewCallback(fn, searchIMP) ==
    [fn |-> fn, searchIMP |-> searchIMP, bestIMP |-> 0, outerCallback |-> TRUE,
     calls |-> <<>>, emitted |-> <<>>]

\* A search that goes on to the second pass without looking at bestIMP.
plcrash_async_objc_find_method_no_best_test(image, objcContext, imp, env) ==
    Let(plcrash_async_objc_parse(image,
            [ctx |-> objcContext, cb |-> NewCallback("search", imp),
             ev |-> <<>>, trap |-> FALSE], env), LAMBDA p1 :
        LET bestIMP == p1.st.cb.bestIMP
            result(err, s, pass2, calls) ==
                [err |-> err, ctx |-> s.ctx, calls |-> calls, pass1 |-> p1.st.cb.emitted,
                 pass2 |-> pass2, bestIMP |-> bestIMP, ev |-> s.ev, trap |-> s.trap]
        IN  IF p1.err # PLCRASH_ESUCCESS
            THEN result(p1.err, p1.st, <<>>, <<>>)
            ELSE
    Let(plcrash_async_objc_parse(image,
            [p1.st EXCEPT !.cb = NewCallback("call", bestIMP),
                          !.ev = Append(@, [kind |-> "pass2"])], env), LAMBDA p2 :
        result(p2.err, p2.st, p2.st.cb.emitted, p2.st.cb.calls)))

\* The result: the error code, the cache object afterwards, the calls made
\* to the caller's callback, what each pass enumerated, bestIMP of the
\* first pass, the log, and whether the process trapped.
plcrash_async_objc_find_method(image, objcContext, imp, env) ==
    Let(plcrash_async_objc_parse(image,
            [ctx |-> objcContext, cb |-> NewCallback("search", imp),
             ev |-> <<>>, trap |-> FALSE], env), LAMBDA p1 :
        LET bestIMP == p1.st.cb.bestIMP
            result(err, s, pass2, calls) ==
                [err |-> err, ctx |-> s.ctx, calls |-> calls, pass1 |-> p1.st.cb.emitted,
                 pass2 |-> pass2, bestIMP |-> bestIMP, ev |-> s.ev, trap |-> s.trap]
        IN  IF p1.err # PLCRASH_ESUCCESS
            THEN result(p1.err, p1.st, <<>>, <<>>)
            ELSE IF bestIMP = 0
            THEN result(PLCRASH_ENOTFOUND, p1.st, <<>>, <<>>)
            ELSE
    Let(plcrash_async_objc_parse(image,
            [p1.st EXCEPT !.cb = NewCallback("call", bestIMP),
                          !.ev = Append(@, [kind |-> "pass2"])], env), LAMBDA p2 :
        result(p2.err, p2.st, p2.st.cb.emitted, p2.st.cb.calls)))

plcrash_async_objc_cache_free(context) ==
    LET f == free_mapped_sections([ctx |-> context, cb |-> NewCallback("search", 0),
                                   ev |-> <<>>, trap |-> FALSE])
    IN  [ctx |-> IF context.classCacheKeys # NULL
                 THEN [f.ctx EXCEPT !.cacheBlock = ZeroFilled]
                 ELSE f.ctx,
         ev |-> f.ev,
         vmDeallocated |-> context.classCacheKeys # NULL]

----------------------------------------------------------------------------
(* The ARM thread state (PLCrashAsyncThread_arm.c).                        *)

\* plcrash_regnum_t for ARM, in enumeration order.
ArmRegisters ==
    <<"R0", "R1", "R2", "R3", "R4", "R5", "R6", "R7", "R8", "R9", "R10", "R11", "R12",
      "SP", "LR", "PC", "CPSR">>

ArmRegisterSet == {ArmRegisters[i] : i \in 1 .. Len(ArmRegisters)}

\* A table that also lists SP and LR.
\* Register identifiers that are no ARM register: the value after
\* PLCRASH_ARM_LAST_REG and PLCRASH_REG_INVALID.
UnknownRegisters == {"REG17", "PLCRASH_REG_INVALID"}

RegisterIds == ArmRegisterSet \cup UnknownRegisters

\* A table that lists R9 as well.
arm_nonvolatile_registers_with_r9 ==
    <<"R4", "R5", "R6", "R7", "R8", "R9", "R10", "R11">>

arm_nonvolatile_registers_with_sp_lr ==
    <<"R4", "R5", "R6", "R7", "R8", "R10", "R11", "SP", "LR">>

arm_nonvolatile_registers == <<"R4", "R5", "R6", "R7", "R8", "R10", "R11">>

plcrash_async_thread_state_get_reg_count == Len(ArmRegisters)

plcrash_async_thread_state_has_reg(thread_state, regnum) ==
    regnum \in thread_state.valid_regs

plcrash_async_thread_state_clear_reg(thread_state, regnum) ==
    [thread_state EXCEPT !.valid_regs = @ \ {regnum}]

\* set_reg with a default case that stores like the others.
plcrash_async_thread_state_set_reg_no_default(thread_state, regnum, reg) ==
    [trap |-> FALSE,
     ts |-> [thread_state EXCEPT !.valid_regs = @ \cup {regnum}]]

\* The switch of set_reg: SETGEN for each register, __builtin_trap() in the
\* default case.  The result is the thread state and whether the call trapped.
plcrash_async_thread_state_set_reg(thread_state, regnum, reg) ==
    IF regnum \in ArmRegisterSet
    THEN [trap |-> FALSE,
          ts |-> [thread_state EXCEPT !.valid_regs = @ \cup {regnum},
                                      !.arm_state[regnum] = reg]]
    ELSE [trap |-> TRUE, ts |-> thread_state]

\* The switch of get_reg: RETGEN for each register, whatever valid_regs
\* says, and __builtin_trap() in the default case.
plcrash_async_thread_state_get_reg(thread_state, regnum) ==
    IF regnum \in ArmRegisterSet
    THEN [trap |-> FALSE, value |-> thread_state.arm_state[regnum]]
    ELSE [trap |-> TRUE]

\* The names get_reg_name returns, in the order of ArmRegisters.
ArmRegisterNames ==
    <<"r0", "r1", "r2", "r3", "r4", "r5", "r6", "r7", "r8", "r9", "r10", "r11", "r12",
      "sp", "lr", "pc", "cpsr">>

\* get_reg_name: the name, or abort() after the switch's default case.
plcrash_async_thread_state_get_reg_name(thread_state, regnum) ==
    IF \E i \in 1 .. Len(ArmRegisters) : ArmRegisters[i] = regnum
    THEN [abort |-> FALSE,
          name |-> ArmRegisterNames[CHOOSE i \in 1 .. Len(ArmRegisters) :
                                        ArmRegisters[i] = regnum]]
    ELSE [abort |-> TRUE]

\* plframe_cursor_get_reg: the read of a register of the cursor's frame.
PLFRAME_ESUCCESS == "PLFRAME_ESUCCESS"
PLFRAME_ENOTSUP == "PLFRAME_ENOTSUP"

plframe_cursor_get_reg(thread_state, regnum) ==
    IF ~plcrash_async_thread_state_has_reg(thread_state, regnum)
    THEN [err |-> PLFRAME_ENOTSUP]
    ELSE [err |-> PLFRAME_ESUCCESS,
          reg |-> plcrash_async_thread_state_get_reg(thread_state, regnum).value]

\* A table in which LR has SP's DWARF number.
arm_dwarf_table_lr_as_sp ==
    <<[regnum |-> "R0", dwarf_value |-> 0], [regnum |-> "R1", dwarf_value |-> 1],
      [regnum |-> "R2", dwarf_value |-> 2], [regnum |-> "R3", dwarf_value |-> 3],
      [regnum |-> "R4", dwarf_value |-> 4], [regnum |-> "R5", dwarf_value |-> 5],
      [regnum |-> "R6", dwarf_value |-> 6], [regnum |-> "R7", dwarf_value |-> 7],
      [regnum |-> "R8", dwarf_value |-> 8], [regnum |-> "R9", dwarf_value |-> 9],
      [regnum |-> "R10", dwarf_value |-> 10], [regnum |-> "R11", dwarf_value |-> 11],
      [regnum |-> "R12", dwarf_value |-> 12], [regnum |-> "SP", dwarf_value |-> 13],
      [regnum |-> "LR", dwarf_value |-> 13], [regnum |-> "PC", dwarf_value |-> 15]>>

\* A table that gives CPSR a DWARF number.
arm_dwarf_table_with_cpsr ==
    <<[regnum |-> "R0", dwarf_value |-> 0], [regnum |-> "R1", dwarf_value |-> 1],
      [regnum |-> "R2", dwarf_value |-> 2], [regnum |-> "R3", dwarf_value |-> 3],
      [regnum |-> "R4", dwarf_value |-> 4], [regnum |-> "R5", dwarf_value |-> 5],
      [regnum |-> "R6", dwarf_value |-> 6], [regnum |-> "R7", dwarf_value |-> 7],
      [regnum |-> "R8", dwarf_value |-> 8], [regnum |-> "R9", dwarf_value |-> 9],
      [regnum |-> "R10", dwarf_value |-> 10], [regnum |-> "R11", dwarf_value |-> 11],
      [regnum |-> "R12", dwarf_value |-> 12], [regnum |-> "SP", dwarf_value |-> 13],
      [regnum |-> "LR", dwarf_value |-> 14], [regnum |-> "PC", dwarf_value |-> 15],
      [regnum |-> "CPSR", dwarf_value |-> 16]>>

arm_dwarf_table ==
    <<[regnum |-> "R0", dwarf_value |-> 0], [regnum |-> "R1", dwarf_value |-> 1],
      [regnum |-> "R2", dwarf_value |-> 2], [regnum |-> "R3", dwarf_value |-> 3],
      [regnum |-> "R4", dwarf_value |-> 4], [regnum |-> "R5", dwarf_value |-> 5],
      [regnum |-> "R6", dwarf_value |-> 6], [regnum |-> "R7", dwarf_value |-> 7],
      [regnum |-> "R8", dwarf_value |-> 8], [regnum |-> "R9", dwarf_value |-> 9],
      [regnum |-> "R10", dwarf_value |-> 10], [regnum |-> "R11", dwarf_value |-> 11],
      [regnum |-> "R12", dwarf_value |-> 12], [regnum |-> "SP", dwarf_value |-> 13],
      [regnum |-> "LR", dwarf_value |-> 14], [regnum |-> "PC", dwarf_value |-> 15]>>

\* The loop of map_reg_to_dwarf from table index i on; dwarf_reg is what the
\* caller's output variable holds.  The result is the return value and the
\* output variable afterwards.
RECURSIVE MapRegToDwarfLoop(_, _, _)
MapRegToDwarfLoop(regnum, dwarf_reg, i) ==
    IF i > Len(arm_dwarf_table)
    THEN [ok |-> FALSE, out |-> dwarf_reg]
    ELSE IF arm_dwarf_table[i].regnum = regnum
    THEN [ok |-> TRUE, out |-> arm_dwarf_table[i].dwarf_value]
    ELSE MapRegToDwarfLoop(regnum, dwarf_reg, i + 1)

plcrash_async_thread_state_map_reg_to_dwarf(thread_state, regnum, dwarf_reg) ==
    MapRegToDwarfLoop(regnum, dwarf_reg, 1)

\* The loop of map_dwarf_to_reg, likewise.
RECURSIVE MapDwarfToRegLoop(_, _, _)
MapDwarfToRegLoop(dwarf_reg, regnum, i) ==
    IF i > Len(arm_dwarf_table)
    THEN [ok |-> FALSE, out |-> regnum]
    ELSE IF arm_dwarf_table[i].dwarf_value = dwarf_reg
    THEN [ok |-> TRUE, out |-> arm_dwarf_table[i].regnum]
    ELSE MapDwarfToRegLoop(dwarf_reg, regnum, i + 1)

plcrash_async_thread_state_map_dwarf_to_reg(thread_state, dwarf_reg, regnum) ==
    MapDwarfToRegLoop(dwarf_reg, regnum, 1)

\* The loop of clear_volatile_regs from register index reg on.
RECURSIVE ClearVolatileLoop(_, _)
ClearVolatileLoop(thread_state, reg) ==
    IF reg > plcrash_async_thread_state_get_reg_count
    THEN thread_state
    ELSE LET r == ArmRegisters[reg]
             preserved == \E i \in 1 .. Len(arm_nonvolatile_registers) :
                              arm_nonvolatile_registers[i] = r
         IN  IF ~plcrash_async_thread_state_has_reg(thread_state, r)
             THEN ClearVolatileLoop(thread_state, reg + 1)
             ELSE IF ~preserved
             THEN ClearVolatileLoop(plcrash_async_thread_state_clear_reg(thread_state, r),
                                    reg + 1)
             ELSE ClearVolatileLoop(thread_state, reg + 1)

\* A clear_volatile_regs that leaves its loop after the first register it
\* clears.
plcrash_async_thread_state_clear_volatile_regs_first_only(thread_state) ==
    LET volatile == {i \in 1 .. Len(ArmRegisters) :
                        /\ plcrash_async_thread_state_has_reg(thread_state, ArmRegisters[i])
                        /\ \A j \in 1 .. Len(arm_nonvolatile_registers) :
                               arm_nonvolatile_registers[j] # ArmRegisters[i]}
    IN  IF volatile = {}
        THEN thread_state
        ELSE plcrash_async_thread_state_clear_reg(thread_state,
                 ArmRegisters[CHOOSE i \in volatile : \A j \in volatile : i <= j])

plcrash_async_thread_state_clear_volatile_regs(thread_state) ==
    ClearVolatileLoop(thread_state, 1)

----------------------------------------------------------------------------
(* The ObjC parser as a state machine: the operations of the API on one    *)
(* cache object, and the task changing the protection of its heap.         *)

\* Searched addresses: 50, 200, 350, ...
MaxIPIndex == 2

SearchIPs == {50 + 150 * i : i \in 0 .. MaxIPIndex}

Images(s) == {Image1(s), Image2(s), Image3(s)}

NoFault == [section |-> "none", err |-> PLCRASH_ESUCCESS]

BaseEnv == [vmAllocOK |-> TRUE, mapFault |-> NoFault, ub |-> "trap"]

\* What the surroundings may decide during one call, as far as the call can
\* observe it: a section mapping can only fail when the sections are mapped
\* anew, vm_allocate only when the cache has no storage yet, and a NULL
\* class_ro is only read when a cached entry has become unreadable.
Envs(image, ctx, taken) ==
    {BaseEnv}
    \cup {[BaseEnv EXCEPT !.mapFault = [section |-> sect, err |-> PLCRASH_EINVAL]] :
            sect \in IF image.id = ctx.lastImage
                     THEN {}
                     ELSE {"__objc_const", "__objc_classlist", "__objc_data"}}
    \cup {[BaseEnv EXCEPT !.mapFault = [section |-> sect, err |-> PLCRASH_EINVAL]] :
            sect \in IF ctx.gotObjC2Info THEN {} ELSE {"__module_info"}}
    \cup (IF ctx.classCacheKeys = NULL THEN {[BaseEnv EXCEPT !.vmAllocOK = FALSE]} ELSE {})
    \cup (IF ctx.classCacheKeys # NULL /\ taken # {}
          THEN {[BaseEnv EXCEPT !.ub = "zero"]}
          ELSE {})

InitThreadState == [valid_regs |-> {}, arm_state |-> [r \in ArmRegisterSet |-> 0]]

\* The account of the memory objects: live holds those mapped and not freed
\* yet; Account goes through the log of one call from entry i on, adding an
\* object where it was mapped and taking it away where
\* plcrash_async_mobject_free was called on it, and notes a mapping over an
\* object that was still live and a free of an object that was not.
NoneOwned == [live |-> {}, bad |-> {}]

RECURSIVE Account(_, _, _)
Account(o, ev, i) ==
    IF i > Len(ev)
    THEN o
    ELSE Account(
             CASE ev[i].kind = "map" ->
                    [live |-> o.live \cup {ev[i].mobj},
                     bad |-> o.bad \cup (IF ev[i].mobj \in o.live THEN {"lost"} ELSE {})]
               [] ev[i].kind = "free" ->
                    [live |-> o.live \ {ev[i].mobj},
                     bad |-> o.bad \cup (IF ev[i].mobj \in o.live THEN {} ELSE {"not live"})]
               [] OTHER -> o,
             ev, i + 1)

Init ==
    /\ scen \in 1 .. Len(ScenarioList)
    /\ mem = AllMems[scen]
    /\ cache = plcrash_async_objc_cache_init(Storage)
    /\ life = "live"
    /\ unreadable = {}
    /\ last = [op |-> "none"]
    /\ hist = [k \in {} |-> 0]
    /\ ts = InitThreadState
    /\ owned = NoneOwned

CacheInit ==
    /\ life \in {"live", "freed"}
    /\ last.op = "none"
    /\ cache' = plcrash_async_objc_cache_init(cache)
    /\ life' = "live"
    /\ last' = [op |-> "init", pre |-> cache]
    /\ owned' = NoneOwned       \* the account is kept per lifetime of the cache
    /\ UNCHANGED <<scen, mem, unreadable, hist, ts>>

CacheFree ==
    /\ life = "live"
    /\ last.op = "none"
    /\ \E r \in {plcrash_async_objc_cache_free(cache)} :
           /\ cache' = r.ctx
           /\ last' = [op |-> "free", pre |-> cache, ev |-> r.ev,
                       vmDeallocated |-> r.vmDeallocated]
           /\ owned' = Account(owned, r.ev, 1)
    /\ life' = "freed"
    /\ UNCHANGED <<scen, mem, unreadable, hist, ts>>

FindMethod(image, ip, env) ==
    /\ life = "live"
    /\ last.op = "none"
    /\ \E r \in {plcrash_async_objc_find_method(image, cache, ip, env)} :
           /\ cache' = r.ctx
           /\ life' = IF r.trap THEN "trapped" ELSE "live"
           /\ last' = [op |-> "find", image |-> image.id, ip |-> ip, env |-> env,
                       pre |-> cache, err |-> r.err, calls |-> r.calls,
                       pass1 |-> r.pass1, pass2 |-> r.pass2, bestIMP |-> r.bestIMP,
                       ev |-> r.ev, trap |-> r.trap]
           /\ owned' = Account(owned, r.ev, 1)
    /\ UNCHANGED <<scen, mem, unreadable, hist, ts>>

\* The task takes a heap region away (deallocates or protects it) ...
TaskProtect(region) ==
    /\ life = "live"
    /\ last.op = "none"
    /\ region \notin unreadable
    /\ unreadable' = unreadable \cup {region}
    /\ UNCHANGED <<cache, life, scen, mem, last, hist, ts, owned>>

\* ... or makes it readable again.
TaskUnprotect(region) ==
    /\ life = "live"
    /\ last.op = "none"
    /\ region \in unreadable
    /\ unreadable' = unreadable \ {region}
    /\ UNCHANGED <<cache, life, scen, mem, last, hist, ts, owned>>

\* The caller has looked at the outcome of its call and goes on.
CallerResumes ==
    /\ last.op # "none"
    /\ life # "trapped"
    /\ last' = [op |-> "none"]
    /\ UNCHANGED <<cache, life, scen, mem, unreadable, hist, ts, owned>>

Next ==
    \/ CacheInit
    \/ CacheFree
    \/ \E image \in Images(Sc), ip \in SearchIPs :
         \E env \in Envs(image, cache, unreadable) : FindMethod(image, ip, env)
    \/ \E region \in Regions : TaskProtect(region)
    \/ \E region \in Regions : TaskUnprotect(region)
    \/ CallerResumes

Spec == Init /\ [][Next]_vars

----------------------------------------------------------------------------
(* The class cache on its own: cache_set and cache_lookup with any keys,   *)
(* as the parser may call them.                                            *)

\* Keys 4 * i + 4096 * j: key 0, keys of distinct buckets, and keys that
\* share a bucket (4096 = 4 * 1024 apart).
MaxBucket == 1
MaxAlias == 1
MaxValue == 2

CacheKeys == {4 * i + 4 * CacheAllocSize * j : i \in 0 .. MaxBucket, j \in 0 .. MaxAlias}

CacheValues == 0 .. MaxValue

NoHistory == [k \in {} |-> 0]

InitCache ==
    /\ scen = 1
    /\ mem = AllMems[scen]
    /\ cache = plcrash_async_objc_cache_init(Storage)
    /\ life = "live"
    /\ unreadable = {}
    /\ last = [op |-> "none"]
    /\ hist = NoHistory
    /\ ts = InitThreadState
    /\ owned = NoneOwned

\* cache_init between uses of the cache.
CacheReinit ==
    /\ last.op = "none"
    /\ cache' = plcrash_async_objc_cache_init(cache)
    /\ hist' = NoHistory
    /\ last' = [op |-> "init", pre |-> cache]
    /\ UNCHANGED <<life, scen, mem, unreadable, ts, owned>>

\* Whether the bucket of key is free (its key is 0) once storage is there.
BucketFree(context, key) ==
    \/ context.classCacheKeys = NULL
    \/ KeyAt(context, cache_index(context, key)) = 0

\* hist remembers, for each key, the value of the latest cache_set that
\* found the bucket free with storage available.
CacheSet(key, value, vmAllocOK) ==
    /\ last.op = "none"
    /\ cache' = cache_set(cache, key, value, vmAllocOK)
    /\ LET stored == (cache.classCacheKeys # NULL \/ vmAllocOK) /\ BucketFree(cache, key)
       IN  /\ hist' = IF stored
                      THEN [k \in DOMAIN hist \cup {key} |->
                               IF k = key THEN value ELSE hist[k]]
                      ELSE hist
           /\ last' = [op |-> "set", key |-> key, value |-> value,
                       vmAllocOK |-> vmAllocOK, free |-> stored, pre |-> cache,
                       held |-> hist]
    /\ UNCHANGED <<life, scen, mem, unreadable, ts, owned>>

CacheLookup(key) ==
    /\ last.op = "none"
    /\ last' = [op |-> "lookup", key |-> key, result |-> cache_lookup(cache, key),
                pre |-> cache]
    /\ UNCHANGED <<cache, life, scen, mem, unreadable, hist, ts, owned>>

NextCache ==
    \/ CacheReinit
    \/ \E key \in CacheKeys, value \in CacheValues :
         \E vmAllocOK \in IF cache.classCacheKeys = NULL THEN BOOLEAN ELSE {TRUE} :
            CacheSet(key, value, vmAllocOK)
    \/ \E key \in CacheKeys : CacheLookup(key)
    \/ CallerResumes

SpecCache == InitCache /\ [][NextCache]_vars

----------------------------------------------------------------------------
(* The ARM thread state on its own.                                        *)

\* At most MaxWrittenRegs registers are ever written, with values
\* 1 .. MaxRegValue (0 is what a register holds before it is written).
MaxWrittenRegs == 2
MaxRegValue == 1

\* DWARF register numbers asked for: 0 .. MaxDwarf; NoDwarf is what an
\* output variable holds before a call.
MaxDwarf == 17

NoDwarf == 99

Written(thread_state) == {r \in ArmRegisterSet : thread_state.arm_state[r] # 0}

InitThread ==
    /\ scen = 1
    /\ mem = AllMems[scen]
    /\ cache = plcrash_async_objc_cache_init(Storage)
    /\ life = "live"
    /\ unreadable = {}
    /\ last = [op |-> "none"]
    /\ hist = NoHistory
    /\ ts = InitThreadState
    /\ owned = NoneOwned

SetReg(regnum, reg) ==
    /\ life = "live"
    /\ last.op = "none"
    /\ \/ regnum \in Written(ts) \cup UnknownRegisters
       \/ Cardinality(Written(ts)) < MaxWrittenRegs
    /\ \E r \in {plcrash_async_thread_state_set_reg(ts, regnum, reg)} :
           /\ ts' = r.ts
           /\ life' = IF r.trap THEN "trapped" ELSE "live"
           /\ last' = [op |-> "set_reg", regnum |-> regnum, pre |-> ts, trap |-> r.trap]
    /\ UNCHANGED <<cache, scen, mem, unreadable, hist, owned>>

ClearReg(regnum) ==
    /\ life = "live"
    /\ last.op = "none"
    /\ plcrash_async_thread_state_has_reg(ts, regnum)
    /\ ts' = plcrash_async_thread_state_clear_reg(ts, regnum)
    /\ last' = [op |-> "clear_reg", regnum |-> regnum, pre |-> ts]
    /\ UNCHANGED <<cache, life, scen, mem, unreadable, hist, owned>>

ClearVolatileRegs ==
    /\ life = "live"
    /\ last.op = "none"
    /\ ts' = plcrash_async_thread_state_clear_volatile_regs(ts)
    /\ last' = [op |-> "clear_volatile_regs", pre |-> ts]
    /\ UNCHANGED <<cache, life, scen, mem, unreadable, hist, owned>>

GetReg(regnum) ==
    /\ life = "live"
    /\ last.op = "none"
    /\ \E r \in {plcrash_async_thread_state_get_reg(ts, regnum)} :
           /\ life' = IF r.trap THEN "trapped" ELSE "live"
           /\ last' = [op |-> "get_reg", regnum |-> regnum, pre |-> ts, ret |-> r]
    /\ UNCHANGED <<cache, scen, mem, unreadable, hist, ts, owned>>

GetRegName(regnum) ==
    /\ life = "live"
    /\ last.op = "none"
    /\ \E r \in {plcrash_async_thread_state_get_reg_name(ts, regnum)} :
           /\ life' = IF r.abort THEN "trapped" ELSE "live"
           /\ last' = [op |-> "get_reg_name", regnum |-> regnum, pre |-> ts, ret |-> r]
    /\ UNCHANGED <<cache, scen, mem, unreadable, hist, ts, owned>>

\* The read of a register through the frame cursor whose frame holds ts.
CursorGetReg(regnum) ==
    /\ life = "live"
    /\ last.op = "none"
    /\ last' = [op |-> "cursor_get_reg", regnum |-> regnum, pre |-> ts,
                ret |-> plframe_cursor_get_reg(ts, regnum)]
    /\ UNCHANGED <<cache, life, scen, mem, unreadable, hist, ts, owned>>

\* out is what the caller's output variable holds before the call.
MapRegToDwarf(regnum, out) ==
    /\ life = "live"
    /\ last.op = "none"
    /\ last' = [op |-> "map_reg_to_dwarf", regnum |-> regnum, pre |-> ts, out |-> out,
                ret |-> plcrash_async_thread_state_map_reg_to_dwarf(ts, regnum, out)]
    /\ UNCHANGED <<cache, life, scen, mem, unreadable, hist, ts, owned>>

MapDwarfToReg(dwarf_reg, out) ==
    /\ life = "live"
    /\ last.op = "none"
    /\ last' = [op |-> "map_dwarf_to_reg", dwarf_reg |-> dwarf_reg, pre |-> ts,
                out |-> out,
                ret |-> plcrash_async_thread_state_map_dwarf_to_reg(ts, dwarf_reg, out)]
    /\ UNCHANGED <<cache, life, scen, mem, unreadable, hist, ts, owned>>

NextThread ==
    \/ \E regnum \in RegisterIds, reg \in 1 .. MaxRegValue : SetReg(regnum, reg)
    \/ \E regnum \in ArmRegisterSet : ClearReg(regnum)
    \/ ClearVolatileRegs
    \/ \E regnum \in RegisterIds : GetReg(regnum)
    \/ \E regnum \in RegisterIds : GetRegName(regnum)
    \/ \E regnum \in ArmRegisterSet : CursorGetReg(regnum)
    \/ \E regnum \in RegisterIds : MapRegToDwarf(regnum, NoDwarf)
    \/ \E dwarf_reg \in 0 .. MaxDwarf : MapDwarfToReg(dwarf_reg, "PLCRASH_REG_INVALID")
    \/ CallerResumes

SpecThread == InitThread /\ [][NextThread]_vars

----------------------------------------------------------------------------
(* Properties of plcrash_async_objc_find_method and of the parser.         *)

\* The elements of a sequence.
Range(seq) == {seq[i] : i \in DOMAIN seq}

\* The methods the two passes of the last call enumerated, each as
\* <<isClassMethod, className, methodName, imp>>.
Enumerated == Range(last.pass1) \cup Range(last.pass2)

\* C1: whenever plcrash_async_objc_find_method invokes the caller's
\* callback, the IMP it passes is at most the address searched for and is
\* the greatest such IMP among all methods the parser enumerated for the
\* image: no enumerated method has an IMP above it and at most ip.
C1_CallbackGetsGreatestIMP ==
    last.op = "find" =>
        \A i \in DOMAIN last.calls :
            /\ last.calls[i][4] <= last.ip
            /\ \A m \in Enumerated : ~(last.calls[i][4] < m[4] /\ m[4] <= last.ip)

\* The callback was invoked with an IMP below the address searched for,
\* and the parser had enumerated methods below that IMP and above the
\* address.
C1_Witness ==
    /\ last.op = "find"
    /\ Len(last.calls) = 1
    /\ last.calls[1][4] < last.ip
    /\ \E m \in Enumerated : m[4] < last.calls[1][4]
    /\ \E m \in Enumerated : m[4] > last.ip

\* The class pointers the image lists: the entries of __objc_classlist, and
\* the class definitions of the symtab of the ObjC1 module.
Listed2(image) ==
    LET classlist == Sections(image)[<<"__DATA", "__objc_classlist">>]
    IN  {PtrField(image, classlist.task_address + k * PointerSize(image), 0) :
            k \in 0 .. (classlist.length \div PointerSize(image)) - 1}

Listed1(image) ==
    {Field32(image, A.symtab + Symtab1.size + 4 * k, 0) :
        k \in 0 .. ClsDefCount(image, A.symtab) - 1}

\* The log entries of the last call that say a class was parsed (kinds
\* "class1", "class2") or that the loop over the classes stopped ("stop").
Logged(kinds) == {i \in DOMAIN last.ev : last.ev[i].kind \in kinds}

\* The parse of a class (not of its metaclass) at classAddr was begun.
Visited(kind, classAddr) ==
    \E i \in Logged({kind}) : ~last.ev[i].isMeta /\ last.ev[i].classAddr = classAddr

\* C2, as stated: when a read or a remap fails for one class during the
\* ObjC1 or the ObjC2 parse, only that class is skipped and the parse goes
\* on with the remaining classes of the image.  So in every call that got
\* as far as the loop over the classes and did not trap, every listed class
\* whose structure can be read (ObjC1) or lies in __objc_data (ObjC2) is
\* parsed, whatever failed for the classes listed before it.
C2_OnlyFailingClassSkipped ==
    (last.op = "find" /\ ~last.trap) =>
        LET image == CHOOSE im \in Images(Sc) : im.id = last.image
            LoopEntered(classKind, stops) ==
                \E i \in Logged({classKind, "stop"}) :
                    last.ev[i].kind = "stop" => last.ev[i].at \in stops
        IN  /\ LoopEntered("class2", {"class", "metaclass"})
                => \A c \in Listed2(image) :
                      plcrash_async_mobject_remap_address(
                          Sections(image)[<<"__DATA", "__objc_data">>], c, 0,
                          Class2_size(image))
                      => Visited("class2", c)
            /\ LoopEntered("class1", {"cursor1", "class1", "metaclass1"})
                => \A c \in Listed1(image) :
                      plcrash_async_read_addr(c, Class1.size) = PLCRASH_ESUCCESS
                      => Visited("class1", c)

\* C3: in the ObjC2 class parse the class_ro structure is dereferenced
\* (its name and baseMethods fields are read) only after a successful remap
\* inside __objc_const or a successful copy from task memory, on the
\* cache-miss path and on the cache-hit path, also when on a cache hit both
\* the remap and the copy fail.
C3_ClassROValidatedBeforeUse ==
    last.op = "find" =>
        \A i \in Logged({"class2"}) :
            last.ev[i].roDeref => last.ev[i].roSrc \in {"remap", "copy"}

\* The log entries of the last call that open a parse with gotObjC2Info
\* clear or set, and the end of the parse that entry i opens: its "parsed"
\* entry, or the end of the log when the parse never returned.
ParsesWith(flag) == {i \in Logged({"parse"}) : last.ev[i].gotObjC2Info = flag}

ParseEnd(i) ==
    LET ends == {j \in Logged({"parsed"}) : j > i}
    IN  IF ends = {}
        THEN Len(last.ev)
        ELSE CHOOSE j \in ends : \A k \in ends : j <= k

\* The entries between i and j that say a path was tried, or returned.
Tried(path, i, j) ==
    {k \in i .. j : last.ev[k].kind = "try" /\ last.ev[k].path = path}

Returned(path, i, j) ==
    {k \in i .. j : last.ev[k].kind = "done" /\ last.ev[k].path = path}

\* C6: once gotObjC2Info of the cache is true it stays true until
\* plcrash_async_objc_cache_init is called on the cache again, and as long
\* as it is true no parse using the cache takes the ObjC1
\* (__OBJC.__module_info) path, for any image.
C6_ObjC2FlagSticky ==
    /\ [][(cache.gotObjC2Info /\ ~cache'.gotObjC2Info) => last'.op = "init"]_vars
    /\ [](last.op = "find" =>
            /\ \A i \in ParsesWith(TRUE) : Tried("objc1", i, ParseEnd(i)) = {}
            /\ \A i \in ParsesWith(TRUE) :
                   \A j \in Logged({"parse", "parsed"}) :
                       j > i => last.ev[j].gotObjC2Info
            /\ last.pre.gotObjC2Info => ParsesWith(FALSE) = {})

\* A call on the ObjC1 image found gotObjC2Info set and left the ObjC1
\* metadata of the image alone.
C6_Witness ==
    /\ last.op = "find"
    /\ last.image = "img1"
    /\ Sc.o1 # "absent"
    /\ last.pre.gotObjC2Info
    /\ ParsesWith(TRUE) # {}
    /\ last.err = PLCRASH_ENOTFOUND

\* C7: a parse that finds gotObjC2Info clear tries the ObjC1 path first;
\* it tries the ObjC2 path if and only if the ObjC1 path returned
\* PLCRASH_ENOTFOUND; and it sets gotObjC2Info only after the ObjC2 path
\* returned PLCRASH_ESUCCESS.
C7_ObjC1ThenObjC2 ==
    last.op = "find" =>
        \A i \in ParsesWith(FALSE) :
            LET j == ParseEnd(i)
                notFound == {d \in Returned("objc1", i, j) :
                                last.ev[d].err = PLCRASH_ENOTFOUND}
            IN  /\ i + 1 \in Tried("objc1", i, j)
                /\ \A k \in Tried("objc2", i, j) : \E d \in notFound : d < k
                /\ notFound # {} => Tried("objc2", i, j) # {}
                /\ (last.ev[j].kind = "parsed" /\ last.ev[j].gotObjC2Info)
                   => \E d \in Returned("objc2", i, j) :
                         last.ev[d].err = PLCRASH_ESUCCESS

\* A call found gotObjC2Info clear, got PLCRASH_ENOTFOUND from the ObjC1
\* path, parsed the ObjC2 data and set the flag.
C7_Witness ==
    /\ last.op = "find"
    /\ ~last.pre.gotObjC2Info
    /\ cache.gotObjC2Info
    /\ \E i \in ParsesWith(FALSE) :
          /\ Returned("objc1", i, ParseEnd(i)) # {}
          /\ Tried("objc2", i, ParseEnd(i)) # {}

\* The log entries of ObjC2 classes whose class_rw was read on a cache miss.
Missed == {i \in Logged({"class2"}) :
             ~last.ev[i].hit /\ last.ev[i].rwErr = PLCRASH_ESUCCESS}

\* C8: for an ObjC2 class whose class_rw flags word, as the parser loads
\* it, has RW_REALIZED (bit 31) clear and whose data_rw address is not in
\* the cache, the parser invokes no callback for the class, reads nothing
\* of its class_ro, adds nothing to the cache, reports no error, and goes
\* on to the next class, whose parse logs its method reads and the class
\* (or ends the parse with success after the last).
C8_UnrealizedClassSkipped ==
    last.op = "find" =>
        \A i \in Missed :
            ~TestBit(last.ev[i].flags, RW_REALIZED) =>
                /\ last.ev[i].from = last.ev[i].to
                /\ ~last.ev[i].roDeref
                /\ last.ev[i].roSrc = "none"
                /\ ~last.ev[i].cacheSet
                /\ last.ev[i].cachedAfter = 0
                /\ last.ev[i].err = PLCRASH_ESUCCESS
                /\ i < Len(last.ev)
                /\ \/ last.ev[i + 1].kind \in {"class2", "method2", "stop"}
                   \/ /\ last.ev[i + 1].kind = "done"
                      /\ last.ev[i + 1].err = PLCRASH_ESUCCESS

\* An unrealized class was skipped (its class_rw names a readable class_ro
\* inside __objc_const all the same) and the parse went on to parse another
\* class and to emit methods.
C8_Witness ==
    /\ last.op = "find"
    /\ \E i \in Missed :
          /\ ~TestBit(last.ev[i].flags, RW_REALIZED)
          /\ last.ev[i].roInConst
          /\ last.ev[i].roReadable
          /\ last.ev[i].from = last.ev[i].to
          /\ \E j \in Logged({"class2"}) :
                j > i /\ last.ev[j].to > last.ev[j].from

\* C9: for a realized ObjC2 class (flags as the parser loads them): with
\* RW_COPIED_RO (bit 27) set the class_ro is obtained by a copy from task
\* memory at data_ro, so a readable data_ro outside __objc_const still
\* yields the methods of the class; with the bit clear the class_ro is
\* obtained only by a remap inside __objc_const, and a data_ro outside that
\* section yields no method for the class.
C9_CopiedROSelectsCopy ==
    last.op = "find" =>
        \A i \in Logged({"class2"}) :
            LET n == last.ev[i]
                copied == TestBit(n.flags, RW_COPIED_RO)
                wellFormed == Sc.xBreak = "none"
            IN  (n.hit \/ (i \in Missed /\ TestBit(n.flags, RW_REALIZED))) =>
                  /\ (~n.hit /\ copied)
                     => n.roSrc = IF n.roReadable THEN "copy" ELSE "none"
                  /\ (copied /\ ~n.roInConst /\ n.roReadable)
                     => /\ n.roSrc = "copy"
                        /\ wellFormed => n.to > n.from
                  /\ ~copied
                     => /\ n.roSrc = IF n.roInConst THEN "remap" ELSE "none"
                        /\ ~n.roInConst => n.to = n.from

\* A class with RW_COPIED_RO set and its class_ro on the heap was parsed
\* through a copy and gave its methods, and a class without the flag was
\* parsed through the mapping of __objc_const.
C9_Witness ==
    /\ last.op = "find"
    /\ \E i \in Missed :
          /\ TestBit(last.ev[i].flags, RW_REALIZED)
          /\ TestBit(last.ev[i].flags, RW_COPIED_RO)
          /\ ~last.ev[i].roInConst
          /\ last.ev[i].roSrc = "copy"
          /\ last.ev[i].to > last.ev[i].from
    /\ \E i \in Missed :
          /\ ~TestBit(last.ev[i].flags, RW_COPIED_RO)
          /\ last.ev[i].roSrc = "remap"

\* The image of the last call, and the callbacks the parse of the class of
\* log entry i made: entries from + 1 .. to of what its pass enumerated.
LastImage == CHOOSE im \in Images(Sc) : im.id = last.image

PassOf(i) ==
    IF \E j \in Logged({"pass2"}) : j < i THEN last.pass2 ELSE last.pass1

Emitted(i) == SubSeq(PassOf(i), last.ev[i].from + 1, last.ev[i].to)

\* The method list of the class_ro at ro, as the layout says: the header
\* {entsize, count} at baseMethods, entsize without its low two bits, and
\* entry k (from 0) at k times entsize after the header.
List2(image, ro) ==
    LET methodsPtr == PtrField(image, ro, RO_baseMethods(image))
        raw == Field32(image, methodsPtr, 0)
        entsize == raw - (raw % 4)
        count == Field32(image, methodsPtr, 4)
    IN  [name |-> PtrField(image, ro, RO_name(image)), methodsPtr |-> methodsPtr,
         raw |-> raw, entsize |-> entsize, count |-> count,
         entry |-> [k \in 0 .. count - 1 |-> methodsPtr + 8 + k * entsize]]

\* The class_ro of log entry i was resolved, its name is readable, and its
\* method list is absent or lies in __objc_const with readable selectors.
WellFormed2(i) ==
    LET n == last.ev[i]
        l == List2(LastImage, n.roAddr)
    IN  /\ n.roDeref
        /\ n.roSrc \in {"remap", "copy"}
        /\ l.name \in DOMAIN Strings
        /\ \/ l.methodsPtr = 0
           \/ /\ plcrash_async_mobject_remap_address(
                     Sections(LastImage)[<<"__DATA", "__objc_const">>],
                     l.methodsPtr, 0, 8 + l.entsize * l.count)
              /\ \A k \in 0 .. l.count - 1 :
                     PtrField(LastImage, l.entry[k], 0) \in DOMAIN Strings

\* C17: for a realized ObjC2 class whose class_ro was resolved, whose
\* method list lies in __objc_const and whose strings are readable, the
\* callback is invoked exactly count times, in list order, call k carrying
\* the selector named by the first pointer-sized field and the IMP held by
\* the third pointer-sized field of the entry at k times entsize (entsize
\* without its low two bits); a null baseMethods gives no call and no
\* error.
C17_ObjC2MethodListEmitted ==
    last.op = "find" =>
        \A i \in Logged({"class2"}) :
            WellFormed2(i) =>
                LET n == last.ev[i]
                    l == List2(LastImage, n.roAddr)
                IN  /\ n.err = PLCRASH_ESUCCESS
                    /\ IF l.methodsPtr = 0
                       THEN Emitted(i) = <<>>
                       ELSE Emitted(i) =
                              [k \in 1 .. l.count |->
                                 <<n.isMeta, Strings[l.name],
                                   Strings[PtrField(LastImage, l.entry[k - 1], 0)],
                                   PtrField(LastImage, l.entry[k - 1],
                                            2 * PointerSize(LastImage))>>]

\* One call parsed a class with a null baseMethods and a class whose list
\* has two entries and flag bits in its entsize.
C17_Witness ==
    /\ last.op = "find"
    /\ \E i \in Logged({"class2"}) :
          WellFormed2(i) /\ List2(LastImage, last.ev[i].roAddr).methodsPtr = 0
    /\ \E i \in Logged({"class2"}) :
          /\ WellFormed2(i)
          /\ List2(LastImage, last.ev[i].roAddr).methodsPtr # 0
          /\ List2(LastImage, last.ev[i].roAddr).count = 2
          /\ List2(LastImage, last.ev[i].roAddr).raw % 4 # 0
          /\ Len(Emitted(i)) = 2

\* The ObjC1 structures as the layout says: the methods of the method_list
\* at listPtr (name pointer and IMP of each 12-byte entry after the 8-byte
\* header), and the array of list pointers at arr up to its terminator.
Methods1(image, listPtr) ==
    [k \in 1 .. Field32(image, listPtr, 4) |->
        <<Field32(image, listPtr + 8 + 12 * (k - 1), 0),
          Field32(image, listPtr + 8 + 12 * (k - 1), 8)>>]

MaxLists == 4

IsTerminator(image, a) ==
    swap32(image, MemWord(a)) \in {ZeroWord, <<255, 255, 255, 255>>}

\* The index of the first terminator of the array at arr.
ArrayEnd(image, arr) ==
    CHOOSE t \in 0 .. MaxLists :
        /\ IsTerminator(image, arr + 4 * t)
        /\ \A j \in 0 .. t - 1 : ~IsTerminator(image, arr + 4 * j)

RECURSIVE ArrayMethods1(_, _, _, _)
ArrayMethods1(image, arr, j, t) ==
    IF j >= t
    THEN <<>>
    ELSE Methods1(image, Field32(image, arr, 4 * j)) \o ArrayMethods1(image, arr, j + 1, t)

\* What the claim designates for the class at classAddr: whether its info
\* has CLS_NO_METHOD_ARRAY, its methods pointer, and its methods in order.
Designated1(image, classAddr) ==
    LET single == TestBit(swap32(image, MemWord(classAddr + 16)), CLS_NO_METHOD_ARRAY)
        p == Field32(image, classAddr, 28)
        t == IF single THEN 0 ELSE ArrayEnd(image, p)
    IN  [single |-> single, p |-> p, t |-> t,
         name |-> Field32(image, classAddr, 8),
         lists |-> IF single
                   THEN IF p = 0 THEN {} ELSE {p}
                   ELSE {Field32(image, p, 4 * j) : j \in 0 .. t - 1},
         methods |-> IF single
                     THEN IF p = 0 THEN <<>> ELSE Methods1(image, p)
                     ELSE ArrayMethods1(image, p, 0, t)]

\* Everything the parse of the class of log entry i has to read is
\* readable: the class name, the array up to its terminator, the lists and
\* the selectors.
WellFormed1(i) ==
    LET d == Designated1(LastImage, last.ev[i].classAddr)
    IN  /\ d.name \in DOMAIN Strings
        /\ ~d.single => /\ \E t \in 0 .. MaxLists : IsTerminator(LastImage, d.p + 4 * t)
                        /\ plcrash_async_read_addr(d.p, 4 * (d.t + 1)) = PLCRASH_ESUCCESS
        /\ \A l \in d.lists :
               plcrash_async_read_addr(l, 8 + 12 * Field32(LastImage, l, 4))
                   = PLCRASH_ESUCCESS
        /\ \A k \in DOMAIN d.methods : d.methods[k][1] \in DOMAIN Strings

\* The addresses of the list-pointer array entries read for the class of log
\* entry i, in order: the "listptr" entries right before entry i.
ListPtrReads(i) ==
    LET others == {j \in 1 .. i - 1 : last.ev[j].kind # "listptr"}
        prev == IF others = {} THEN 0 ELSE CHOOSE j \in others : \A k \in others : k <= j
    IN  [k \in 1 .. i - 1 - prev |-> last.ev[prev + k].addr]

\* C18: for an ObjC1 class the parser emits exactly the methods of the
\* designated lists, in order: with CLS_NO_METHOD_ARRAY set, the count
\* methods of the single list at the methods pointer, none when it is null;
\* with it clear, the methods of each list of the pointer array up to, and
\* without, the first entry that is 0 or 0xFFFFFFFF; and it reads the array
\* entries up to that terminator and none after it.
C18_ObjC1DesignatedListsEmitted ==
    last.op = "find" =>
        \A i \in Logged({"class1"}) :
            WellFormed1(i) =>
                LET n == last.ev[i]
                    d == Designated1(LastImage, n.classAddr)
                IN  /\ n.err = PLCRASH_ESUCCESS
                    /\ Emitted(i) =
                         [k \in DOMAIN d.methods |->
                            <<n.isMeta, Strings[d.name], Strings[d.methods[k][1]],
                              d.methods[k][2]>>]
                    /\ ListPtrReads(i) =
                         IF d.single
                         THEN <<>>
                         ELSE [k \in 1 .. d.t + 1 |-> d.p + 4 * (k - 1)]

\* A class with an array of two lists ended by 0xFFFFFFFF gave the three
\* methods of the two lists, and a class with a single list gave its own.
C18_Witness ==
    /\ last.op = "find"
    /\ \E i \in Logged({"class1"}) :
          /\ WellFormed1(i)
          /\ ~Designated1(LastImage, last.ev[i].classAddr).single
          /\ Designated1(LastImage, last.ev[i].classAddr).t = 2
          /\ MemWord(Designated1(LastImage, last.ev[i].classAddr).p + 8)
               = <<255, 255, 255, 255>>
          /\ Len(Emitted(i)) = 3
    /\ \E i \in Logged({"class1"}) :
          /\ WellFormed1(i)
          /\ Designated1(LastImage, last.ev[i].classAddr).single
          /\ Len(Emitted(i)) = 1

\* The log entries next to entry i, the reads of list pointers and of
\* methods set aside
\* (0 when there is none).
PrevNote(i) ==
    LET before == {j \in 1 .. i - 1 : last.ev[j].kind \notin {"listptr", "method2"}}
    IN  IF before = {} THEN 0 ELSE CHOOSE j \in before : \A k \in before : k <= j

NextNote(i) ==
    LET after == {j \in i + 1 .. Len(last.ev) :
                     last.ev[j].kind \notin {"listptr", "method2"}}
    IN  IF after = {} THEN 0 ELSE CHOOSE j \in after : \A k \in after : j <= k

\* The isa of the class structure at classAddr, and whether the structure
\* at an address can be reached the way the loop over the classes reaches it.
IsaOf(kind, classAddr) ==
    IF kind = "class2"
    THEN PtrField(LastImage, classAddr, Class2_isa)
    ELSE Field32(LastImage, classAddr, Class1.isa)

Reachable(kind, addr) ==
    IF kind = "class2"
    THEN plcrash_async_mobject_remap_address(
             Sections(LastImage)[<<"__DATA", "__objc_data">>], addr, 0,
             Class2_size(LastImage))
    ELSE plcrash_async_read_addr(addr, Class1.size) = PLCRASH_ESUCCESS

\* C19: for every class listed in an image, on the ObjC1 and on the ObjC2
\* path, the callbacks of the class carry isMeta = false and come before
\* the callbacks of its metaclass, the structure at the isa of the class,
\* which carry isMeta = true; the metaclass is visited once per class, only
\* after the class parsed without error, and the isa of the metaclass is
\* not followed.
C19_ClassBeforeMetaclass ==
    last.op = "find" =>
        \A i \in Logged({"class1", "class2"}) :
            LET n == last.ev[i]
                p == PrevNote(i)
                x == NextNote(i)
            IN  /\ \A k \in DOMAIN Emitted(i) : Emitted(i)[k][1] = n.isMeta
                /\ n.isMeta =>
                      /\ p # 0
                      /\ last.ev[p].kind = n.kind
                      /\ ~last.ev[p].isMeta
                      /\ last.ev[p].err = PLCRASH_ESUCCESS
                      /\ n.classAddr = IsaOf(n.kind, last.ev[p].classAddr)
                      /\ PassOf(p) = PassOf(i)
                      /\ last.ev[p].to = n.from
                      /\ x # 0 /\ last.ev[x].kind = n.kind => ~last.ev[x].isMeta
                /\ ~n.isMeta =>
                      /\ n.classAddr \in (IF n.kind = "class2"
                                          THEN Listed2(LastImage)
                                          ELSE Listed1(LastImage))
                      /\ (/\ n.err = PLCRASH_ESUCCESS
                          /\ Reachable(n.kind, IsaOf(n.kind, n.classAddr)))
                           => /\ x # 0
                              /\ last.ev[x].kind = n.kind
                              /\ last.ev[x].isMeta
                              /\ last.ev[x].classAddr = IsaOf(n.kind, n.classAddr)
                      /\ n.err # PLCRASH_ESUCCESS
                           => ~(x # 0 /\ last.ev[x].kind = n.kind /\ last.ev[x].isMeta)

\* On both paths a class gave a callback before its metaclass gave one, and
\* on both paths a class that failed to parse had no metaclass visit.
C19_Witness ==
    /\ last.op = "find"
    /\ \E i \in Logged({"class2"}) :
          /\ last.ev[i].isMeta
          /\ Len(Emitted(i)) > 0
          /\ Len(Emitted(PrevNote(i))) > 0
          /\ Emitted(i)[1][1]
          /\ ~Emitted(PrevNote(i))[1][1]

C19_Witness1 ==
    /\ last.op = "find"
    /\ \E i \in Logged({"class1"}) :
          /\ last.ev[i].isMeta
          /\ Len(Emitted(i)) > 0
          /\ Len(Emitted(PrevNote(i))) > 0
          /\ Emitted(i)[1][1]
          /\ ~Emitted(PrevNote(i))[1][1]

C19_WitnessErr ==
    /\ last.op = "find"
    /\ \E i \in Logged({"class1", "class2"}) :
          ~last.ev[i].isMeta /\ last.ev[i].err # PLCRASH_ESUCCESS

\* The image of the last call has neither the ObjC1 module information nor
\* any of the ObjC2 sections.
NoObjCMetadata ==
    DOMAIN Sections(LastImage)
        \cap {<<"__OBJC", "__module_info">>, <<"__DATA", "__objc_const">>,
              <<"__DATA", "__objc_classlist">>, <<"__DATA", "__objc_data">>} = {}

\* The log entry that ends the first enumeration pass of the last call
\* (0 when the pass did not end).
FirstParsed ==
    LET ends == Logged({"parsed"})
    IN  IF ends = {} THEN 0 ELSE CHOOSE i \in ends : \A j \in ends : i <= j

\* C20: plcrash_async_objc_find_method returns PLCRASH_ENOTFOUND, or the
\* error of the failed parse, and never invokes the caller's callback, when
\* the image has no ObjC metadata, when the first enumeration pass fails,
\* or when no enumerated method has an IMP at or below the address searched
\* for.
C20_NotFoundWithoutCallback ==
    last.op = "find" =>
        /\ NoObjCMetadata =>
              /\ last.calls = <<>>
              /\ ~last.trap
              /\ last.err = PLCRASH_ENOTFOUND
        /\ (FirstParsed # 0 /\ last.ev[FirstParsed].err # PLCRASH_ESUCCESS) =>
              /\ last.calls = <<>>
              /\ ~last.trap
              /\ last.err = last.ev[FirstParsed].err
              /\ Logged({"pass2"}) = {}
        /\ (/\ FirstParsed # 0
            /\ last.ev[FirstParsed].err = PLCRASH_ESUCCESS
            /\ \A m \in Range(last.pass1) : m[4] > last.ip) =>
              /\ last.calls = <<>>
              /\ ~last.trap
              /\ last.err = PLCRASH_ENOTFOUND
              /\ Logged({"pass2"}) = {}

\* A search of an image whose methods all lie above the address searched
\* for ended with PLCRASH_ENOTFOUND and no call.
C20_Witness ==
    /\ last.op = "find"
    /\ FirstParsed # 0
    /\ last.ev[FirstParsed].err = PLCRASH_ESUCCESS
    /\ last.pass1 # <<>>
    /\ \A m \in Range(last.pass1) : m[4] > last.ip
    /\ last.err = PLCRASH_ENOTFOUND
    /\ last.calls = <<>>

\* The other two cases: an image without ObjC metadata, and a first pass
\* that failed after it had enumerated a method at or below the address.
C20_WitnessNoMetadata ==
    last.op = "find" /\ NoObjCMetadata /\ last.err = PLCRASH_ENOTFOUND

C20_WitnessFailedPass ==
    /\ last.op = "find"
    /\ FirstParsed # 0
    /\ last.ev[FirstParsed].err # PLCRASH_ESUCCESS
    /\ \E m \in Range(last.pass1) : m[4] <= last.ip

\* The memory objects of the cache whose Initialized flag is set.
Flagged(context) ==
    {n \in {"objcConstMobj", "classMobj", "objcDataMobj"} :
        CASE n = "objcConstMobj" -> context.objcConstMobjInitialized
          [] n = "classMobj" -> context.classMobjInitialized
          [] OTHER -> context.objcDataMobjInitialized}

\* C22: across any sequence of parses over images, each of the three
\* section mappings succeeding or failing on its own, ended by
\* plcrash_async_objc_cache_free, every memory object that was mapped is
\* freed exactly once: no mapping replaces an object that is still live,
\* no object is freed that is not live (freed twice, or never mapped), the
\* live objects between calls are the ones the cache flags as initialized,
\* and none is live once the cache is freed.
C22_MappedObjectsFreedOnce ==
    /\ owned.bad = {}
    /\ life = "live" => owned.live = Flagged(cache)
    /\ life = "freed" => owned.live = {}

\* plcrash_async_objc_cache_free released what a parse that failed at its
\* second or third mapping had left mapped, after an earlier parse had
\* mapped all three sections of another image.
C22_Witness ==
    /\ life = "freed"
    /\ last.op = "free"
    /\ Len(last.ev) \in {1, 2}
    /\ last.pre.gotObjC2Info

\* C23, as stated: the storage of the hash table comes from a single bulk
\* allocation made outside the parse path: no allocation happens while
\* plcrash_async_objc_find_method runs, so a call returns with the storage
\* pointer it was entered with; at most one allocation is made per cache
\* lifetime; and plcrash_async_objc_cache_free releases exactly that
\* allocation.
C23_StorageAllocatedOutsideParse ==
    /\ last.op = "find" => cache.classCacheKeys = last.pre.classCacheKeys
    /\ last.op = "free" => last.vmDeallocated = (last.pre.classCacheKeys # NULL)

\* What holds of the allocation: a parse entered with storage keeps that
\* storage, a parse entered without it leaves with none or with the one
\* block, and plcrash_async_objc_cache_free releases the block exactly when
\* there is one.
StorageAllocatedOnceAndReleased ==
    /\ (last.op = "find" /\ last.pre.classCacheKeys # NULL)
          => /\ cache.classCacheKeys = last.pre.classCacheKeys
             /\ cache.classCacheSize = last.pre.classCacheSize
    /\ last.op = "find"
          => \/ cache.classCacheKeys = NULL /\ cache.classCacheSize = 0
             \/ /\ cache.classCacheKeys = [blk |-> VmBlock, off |-> 0]
                /\ cache.classCacheSize = CacheAllocSize
    /\ last.op = "free" => last.vmDeallocated = (last.pre.classCacheKeys # NULL)

\* The number of classes the image of the last call lists.
ListedCount ==
    (IF <<"__DATA", "__objc_classlist">> \in DOMAIN Sections(LastImage)
     THEN Sections(LastImage)[<<"__DATA", "__objc_classlist">>].length
              \div PointerSize(LastImage)
     ELSE 0)
    + (IF <<"__OBJC", "__module_info">> \in DOMAIN Sections(LastImage)
       THEN ClsDefCount(LastImage, A.symtab)
       ELSE 0)

\* C24: every call of plcrash_async_objc_find_method terminates, with
\* PLCRASH_ESUCCESS, an error code or a trap, for every content of the
\* task's memory, an ObjC1 array of list pointers without terminator and
\* classes whose isa pointers form a cycle included.  Each call ran to its
\* end; the loops it ran through are bounded: the loop over the array of
\* list pointers goes up one entry at a time and goes on only after an
\* entry that could be read and is not a terminator, so it ends at the
\* first terminator or at the end of readable memory, and the classes
\* parsed are at most the listed ones and one metaclass for each, in each
\* of the two passes.
C24_FindMethodTerminates ==
    last.op = "find" =>
        /\ \/ last.trap
           \/ /\ last.err \in {PLCRASH_ESUCCESS, PLCRASH_EUNKNOWN, PLCRASH_ENOTFOUND,
                               PLCRASH_EINVAL, PLCRASH_EACCESS}
              /\ last.ev # <<>>
              /\ last.ev[Len(last.ev)].kind = "parsed"
        /\ \A i \in Logged({"listptr"}) :
              (i < Len(last.ev) /\ last.ev[i + 1].kind = "listptr") =>
                  /\ last.ev[i + 1].addr = last.ev[i].addr + 4
                  /\ last.ev[i].err = PLCRASH_ESUCCESS
                  /\ last.ev[i].addr \in DOMAIN mem
                  /\ ~IsTerminator(LastImage, last.ev[i].addr)
        /\ Cardinality(Logged({"class1", "class2"})) <= 2 * 2 * ListedCount

\* A call went along an array of list pointers that has no terminator
\* until a read failed, and returned the error; and a call over classes
\* whose isa pointers form a cycle returned.
C24_Witness ==
    /\ last.op = "find"
    /\ ~last.trap
    /\ Sc.o1 = "arrayOpen"
    /\ last.err # PLCRASH_ESUCCESS
    /\ \E i \in Logged({"listptr"}) :
          /\ last.ev[i].err # PLCRASH_ESUCCESS
          /\ last.ev[i].addr \notin DOMAIN mem
          /\ last.ev[i].addr >= A.arrayP + 16

C24_WitnessCycle ==
    /\ last.op = "find"
    /\ ~last.trap
    /\ \E i \in Logged({"class1", "class2"}) :
          /\ ~last.ev[i].isMeta
          /\ IsaOf(last.ev[i].kind, IsaOf(last.ev[i].kind, last.ev[i].classAddr))
               = last.ev[i].classAddr
    /\ last.ev[Len(last.ev)].kind = "parsed"

\* C25, as stated: in the ObjC2 method list every method structure the loop
\* reads (its name and imp fields, the last bytes of the 32- or 64-bit
\* structure at cursor) lies inside the entsize * count bytes that the
\* remap of the method list validated, for every entsize (its low two bits
\* masked) and count of the header.
C25_MethodReadsInsideValidatedRange ==
    last.op = "find" =>
        \A i \in Logged({"method2"}) :
            /\ last.ev[i].cursor >= last.ev[i].start
            /\ last.ev[i].cursor + Method2_size(LastImage)
                 <= last.ev[i].start + last.ev[i].length

\* What holds: the structure lies inside the validated range whenever the
\* entsize of the header is at least the size of the structure.
MethodReadsInsideForFullEntsize ==
    last.op = "find" =>
        \A i \in Logged({"method2"}) :
            /\ last.ev[i].cursor >= last.ev[i].start
            /\ Field32(LastImage, last.ev[i].start - Header_size, Header_entsize)
                 >= Method2_size(LastImage)
                 => last.ev[i].cursor + Method2_size(LastImage)
                      <= last.ev[i].start + last.ev[i].length

\* The log entries of the last call that map or free one of the three
\* section memory objects of the cache.
SectionEvents(kinds) ==
    {i \in Logged(kinds) :
        last.ev[i].mobj \in {"objcConstMobj", "classMobj", "objcDataMobj"}}

\* C26: in every state reached through plcrash_async_objc_cache_init and
\* parses, lastImage is non-null only if the __objc_const, __objc_classlist
\* and __objc_data memory objects are all initialized and map that image;
\* after a map_sections that failed at any of its three steps lastImage is
\* null; and a parse of the image that is lastImage frees and maps nothing.
C26_LastImageMeansMapped ==
    /\ (life = "live" /\ cache.lastImage # "NULL") =>
          /\ Flagged(cache) = {"objcConstMobj", "classMobj", "objcDataMobj"}
          /\ cache.objcConstMobj.image = cache.lastImage
          /\ cache.classMobj.image = cache.lastImage
          /\ cache.objcDataMobj.image = cache.lastImage
          /\ \A sect \in {"__objc_const", "__objc_classlist", "__objc_data"} :
                <<"__DATA", sect>> \in DOMAIN Sections(
                    CHOOSE im \in Images(Sc) : im.id = cache.lastImage)
    /\ (last.op = "find" /\ ~last.trap) =>
          /\ (/\ last.image # last.pre.lastImage
              /\ \E i \in Logged({"try"}) : last.ev[i].path = "objc2"
              /\ Cardinality(SectionEvents({"map"})) < 3)
                => /\ cache.lastImage = "NULL"
                   /\ last.err # PLCRASH_ESUCCESS
          /\ last.image = last.pre.lastImage
                => /\ SectionEvents({"map", "free"}) = {}
                   /\ cache.lastImage = last.pre.lastImage
                   /\ cache.objcConstMobj = last.pre.objcConstMobj
                   /\ cache.classMobj = last.pre.classMobj
                   /\ cache.objcDataMobj = last.pre.objcDataMobj

\* A parse of a second image failed at the second or third mapping: the
\* sections of the first image were freed, one or two of the second are
\* mapped, and lastImage, which named the first image, is null.
C26_Witness ==
    /\ last.op = "find"
    /\ ~last.trap
    /\ last.pre.lastImage \notin {"NULL", last.image}
    /\ Cardinality(SectionEvents({"free"})) = 3
    /\ Cardinality(SectionEvents({"map"})) \in {1, 2}
    /\ cache.lastImage = "NULL"

\* A parse of the image that is lastImage ran over its classes.
C26_WitnessSameImage ==
    /\ last.op = "find"
    /\ last.image = last.pre.lastImage
    /\ Logged({"class2"}) # {}

\* The positions of the second pass at which the method enumerated has the
\* IMP the second pass looks for.
BestMatches == {i \in DOMAIN last.pass2 : last.pass2[i][4] = last.bestIMP}

Least(S) == CHOOSE i \in S : \A j \in S : i <= j

WithoutCache ==
    plcrash_async_objc_find_method(
        CHOOSE im \in Images(Sc) : im.id = last.image,
        [last.pre EXCEPT !.classCacheSize = 0,
                         !.classCacheKeys = NULL,
                         !.classCacheValues = NULL,
                         !.cacheBlock = ZeroFilled],
        last.ip,
        [last.env EXCEPT !.vmAllocOK = FALSE])

SameOutcome(r) ==
    /\ r.err = last.err
    /\ r.trap = last.trap
    /\ r.pass1 = last.pass1
    /\ r.pass2 = last.pass2
    /\ r.calls = last.calls

\* The classes of the last call that hit the cache.
Hits == {i \in Logged({"class2"}) : last.ev[i].hit}

\* C28: the cache is only a hint: with task memory as it was when the
\* entries of the cache were made (no region has been taken away, or the
\* cache had no storage when the call began, so that its entries come from
\* the first pass of the call itself), a call enumerates the same methods in
\* both passes, makes the same callbacks and returns the same code as it
\* does when every class misses the cache.
C28_CacheIsOnlyAHint ==
    (last.op = "find" /\ (unreadable = {} \/ last.pre.classCacheKeys = NULL))
        => SameOutcome(WithoutCache)

\* A successful call whose second pass took class X from the cache and
\* missed class Y, whose bucket X occupies.
C28_Witness ==
    /\ last.op = "find"
    /\ last.err = PLCRASH_ESUCCESS
    /\ Len(last.calls) = 1
    /\ \E i \in Hits : i > Least(Logged({"pass2"}))
    /\ \E i \in Logged({"class2"}) :
          /\ i > Least(Logged({"pass2"}))
          /\ ~last.ev[i].hit
          /\ last.ev[i].cacheSet
          /\ last.ev[i].cachedAfter = 0

\* The same with a region of the task taken away before the call.
C28_WitnessTaken ==
    /\ last.op = "find"
    /\ unreadable # {}
    /\ last.pre.classCacheKeys = NULL
    /\ last.err = PLCRASH_ESUCCESS
    /\ Hits # {}

\* What the flags word of log entry i says once it has gone through the
\* byte-order swap of the image: whether the class is realized, and how
\* its class_ro is then to be obtained.
SwappedFlags(i) == swap32(LastImage, last.ev[i].flags)

\* C30: every multi-byte field the parser takes from the image or from task
\* memory goes through the byte-order swap of the image before it is
\* interpreted; for the flags word of class_rw: a class that missed the
\* cache is skipped exactly when bit 31 (RW_REALIZED) of the swapped word is
\* clear, and its class_ro is copied or remapped as bit 27 (RW_COPIED_RO)
\* of the swapped word says.
C30_FlagsSwappedBeforeTest ==
    last.op = "find" =>
        \A i \in Missed :
            LET n == last.ev[i]
            IN  IF TestBit(SwappedFlags(i), RW_REALIZED)
                THEN n.roSrc =
                        IF TestBit(SwappedFlags(i), RW_COPIED_RO)
                        THEN IF n.roReadable THEN "copy" ELSE "none"
                        ELSE IF n.roInConst THEN "remap" ELSE "none"
                ELSE /\ ~n.roDeref
                     /\ n.from = n.to

\* The same for the images in the byte order of the host, where the swap
\* changes nothing.
FlagsTestedInHostOrder ==
    (last.op = "find" /\ LastImage.byteorder = "direct") =>
        \A i \in Missed :
            LET n == last.ev[i]
            IN  IF TestBit(SwappedFlags(i), RW_REALIZED)
                THEN n.roSrc =
                        IF TestBit(SwappedFlags(i), RW_COPIED_RO)
                        THEN IF n.roReadable THEN "copy" ELSE "none"
                        ELSE IF n.roInConst THEN "remap" ELSE "none"
                ELSE /\ ~n.roDeref
                     /\ n.from = n.to

----------------------------------------------------------------------------
(* Properties of the class cache.                                          *)

\* The cache has storage exactly when its size is not 0; without storage it
\* holds nothing.
SizedIffStored(context) ==
    /\ context.classCacheSize > 0 <=> context.classCacheKeys # NULL
    /\ context.classCacheKeys # NULL <=> context.classCacheValues # NULL
    /\ context.classCacheKeys = NULL => context.cacheBlock = ZeroFilled

\* C29: cache_index is never evaluated while classCacheSize is 0 and no
\* bucket is accessed through a null keys pointer, whatever the sequence of
\* cache_init, cache_set and cache_lookup: cache_lookup goes to a bucket only
\* when classCacheSize > 0 and cache_set only when classCacheKeys is set, and
\* the one is the case exactly when the other is.  A failed allocation in
\* cache_set leaves the cache empty, every lookup then returns 0, and a
\* later cache_set allocates again.
C29_NoIndexWithoutStorage ==
    /\ SizedIffStored(cache)
    /\ last.op \in {"lookup", "set"} => SizedIffStored(last.pre)
    /\ (last.op = "lookup" /\ last.pre.classCacheSize = 0) => last.result = 0
    /\ (last.op = "set" /\ last.pre.classCacheKeys = NULL /\ ~last.vmAllocOK) =>
          /\ cache.classCacheSize = 0
          /\ cache.classCacheKeys = NULL
          /\ cache = last.pre
          /\ \A key \in CacheKeys : cache_lookup(cache, key) = 0
    /\ (last.op = "set" /\ last.pre.classCacheKeys = NULL /\ last.vmAllocOK) =>
          /\ cache.classCacheSize = CacheAllocSize
          /\ cache.classCacheKeys # NULL
          /\ last.key # 0 => cache_lookup(cache, last.key) = last.value

\* The allocation inside cache_set failed: the cache is as it was before
\* the call, without storage, and the key is not found.
C29_Witness ==
    /\ last.op = "set"
    /\ last.pre.classCacheKeys = NULL
    /\ ~last.vmAllocOK
    /\ last.key # 0
    /\ last.value # 0
    /\ cache_lookup(cache, last.key) = 0

\* A cache_set on a cache without storage allocated and stored.
C29_WitnessAllocated ==
    /\ last.op = "set"
    /\ last.pre.classCacheKeys = NULL
    /\ last.vmAllocOK
    /\ last.value # 0
    /\ cache_lookup(cache, last.key) = last.value

\* A lookup in a cache without storage.
C29_WitnessLookup ==
    /\ last.op = "lookup"
    /\ last.pre.classCacheSize = 0
    /\ last.key # 0

\* Some cache_set since the last cache_init stored an entry with a non-zero
\* value in the bucket of key.
EverStored(history, context, key) ==
    \E k \in DOMAIN history :
        history[k] # 0 /\ cache_index(context, k) = cache_index(context, key)

\* C4, as stated: for every key k and value v, once cache_set(k, v) has
\* found the bucket of k free with storage available, cache_lookup(k)
\* returns v, and keeps returning v after any later cache_set calls.
C4_EveryKeyKept ==
    \A k \in DOMAIN hist : cache_lookup(cache, k) = hist[k]

\* C4, amended: for every non-zero key k and value v, once cache_set(k, v)
\* has found the bucket of k free with storage available, cache_lookup(k)
\* returns v, and keeps returning v after any later cache_set calls with any
\* keys.  (An entry stored under key 0 leaves its bucket marked free, and
\* the next cache_set into that bucket replaces it.)
C4_NonZeroKeyKept ==
    \A k \in DOMAIN hist \ {0} : cache_lookup(cache, k) = hist[k]

\* A cache_set with another key of the same bucket has just returned, and
\* the entry stored earlier under a non-zero key is still looked up.
C4_Witness ==
    /\ last.op = "set"
    /\ \E k \in DOMAIN hist \ {0, last.key} :
          /\ k \in DOMAIN last.held
          /\ cache_index(cache, k) = cache_index(cache, last.key)
          /\ cache_lookup(cache, k) = hist[k]
          /\ hist[k] # last.value

\* C5, as stated: a cache_set into a bucket that holds an entry stored
\* earlier changes neither that bucket nor any other.
C5_StoredEntryUnchanged ==
    (last.op = "set" /\ EverStored(last.held, cache, last.key)) => cache = last.pre

\* C5, amended: cache_set(k2, v2) into a bucket that holds an entry (k1, v1)
\* with k1 non-zero -- k2 another key of the bucket, or k2 = k1 with another
\* value -- leaves the key and the value of that bucket unchanged and
\* changes no other bucket.  (A bucket whose entry was stored under key 0
\* is overwritten.)
C5_OccupiedBucketUnchanged ==
    (/\ last.op = "set"
     /\ last.pre.classCacheKeys # NULL
     /\ KeyAt(last.pre, cache_index(last.pre, last.key)) # 0)
    => cache = last.pre

\* A cache_set of a key already present, with a value other than the one
\* stored, has just returned.
C5_Witness ==
    /\ last.op = "set"
    /\ last.key # 0
    /\ last.pre.classCacheKeys # NULL
    /\ KeyAt(last.pre, cache_index(last.pre, last.key)) = last.key
    /\ ValueAt(last.pre, cache_index(last.pre, last.key)) # last.value

----------------------------------------------------------------------------
(* Properties of the ARM thread state.                                     *)

\* C10, as stated: clear_volatile_regs keeps SP and LR valid, with
\* unchanged values, whenever they were valid before the call.
C10_SpLrKept ==
    last.op = "clear_volatile_regs" =>
        \A r \in {"SP", "LR"} :
            r \in last.pre.valid_regs =>
                /\ plcrash_async_thread_state_has_reg(ts, r)
                /\ plcrash_async_thread_state_get_reg(ts, r)
                     = plcrash_async_thread_state_get_reg(last.pre, r)

\* C10, amended: after clear_volatile_regs on ARM neither SP nor LR is
\* valid, whether or not it was valid before: the table of preserved
\* registers holds R4-R8, R10 and R11 only.  The values stored for SP and
\* LR are left as they were.
C10_SpLrCleared ==
    last.op = "clear_volatile_regs" =>
        \A r \in {"SP", "LR"} :
            /\ ~plcrash_async_thread_state_has_reg(ts, r)
            /\ plcrash_async_thread_state_get_reg(ts, r)
                 = plcrash_async_thread_state_get_reg(last.pre, r)

\* clear_volatile_regs has just returned from a call made with SP and LR
\* both valid.
C10_Witness ==
    /\ last.op = "clear_volatile_regs"
    /\ plcrash_async_thread_state_has_reg(last.pre, "SP")
    /\ plcrash_async_thread_state_has_reg(last.pre, "LR")

----------------------------------------------------------------------------
(* Properties of the ARM thread state: reads, clear_volatile_regs and the  *)
(* DWARF register table.                                                   *)

CalleeSavedGP == {"R4", "R5", "R6", "R7", "R8", "R10", "R11"}

CallerSavedNamed == {"R0", "R1", "R2", "R3", "R9", "R12", "PC", "CPSR"}

\* C11: after clear_volatile_regs on ARM, whatever registers were valid
\* before, each of R4-R8, R10, R11 that was valid is still valid and holds
\* the same value; R0-R3, R9, R12, PC and CPSR are invalid; and no register
\* that was invalid before the call is valid after it.
C11_ClearVolatileKeepsCalleeSaved ==
    last.op = "clear_volatile_regs" =>
        /\ \A r \in CalleeSavedGP :
               plcrash_async_thread_state_has_reg(last.pre, r) =>
                   /\ plcrash_async_thread_state_has_reg(ts, r)
                   /\ plcrash_async_thread_state_get_reg(ts, r)
                        = plcrash_async_thread_state_get_reg(last.pre, r)
        /\ \A r \in CallerSavedNamed : ~plcrash_async_thread_state_has_reg(ts, r)
        /\ \A r \in ArmRegisterSet :
               ~plcrash_async_thread_state_has_reg(last.pre, r) =>
                   ~plcrash_async_thread_state_has_reg(ts, r)

\* clear_volatile_regs has returned from a call made with a callee-saved
\* register and a caller-saved register valid and other registers invalid.
C11_Witness ==
    /\ last.op = "clear_volatile_regs"
    /\ \E r \in CalleeSavedGP :
           /\ plcrash_async_thread_state_has_reg(last.pre, r)
           /\ last.pre.arm_state[r] # 0
    /\ \E r \in CallerSavedNamed : plcrash_async_thread_state_has_reg(last.pre, r)

\* What a read handed back is an error and no register value.
ReadErrored(ret) ==
    /\ "err" \in DOMAIN ret
    /\ ret.err # PLFRAME_ESUCCESS
    /\ "value" \notin DOMAIN ret
    /\ "reg" \notin DOMAIN ret

\* C12, as stated: a read of a register whose validity bit is clear returns
\* an error and no value, through plcrash_async_thread_state_get_reg and
\* through the cursor-level read, after any sequence of set_reg, clear_reg
\* and clear_volatile_regs.
C12_InvalidReadIsError ==
    (/\ last.op \in {"get_reg", "cursor_get_reg"}
     /\ last.regnum \in ArmRegisterSet
     /\ ~plcrash_async_thread_state_has_reg(last.pre, last.regnum))
        => ReadErrored(last.ret)

\* C13: clear_volatile_regs is idempotent: applied to the thread state it
\* has produced, it leaves validity and values as they are, so twice is the
\* same as once.
C13_ClearVolatileIdempotent ==
    last.op = "clear_volatile_regs" =>
        /\ plcrash_async_thread_state_clear_volatile_regs(ts) = ts
        /\ plcrash_async_thread_state_clear_volatile_regs(
               plcrash_async_thread_state_clear_volatile_regs(last.pre))
             = plcrash_async_thread_state_clear_volatile_regs(last.pre)

\* clear_volatile_regs has returned from a call that cleared two registers.
C13_Witness ==
    /\ last.op = "clear_volatile_regs"
    /\ Cardinality(last.pre.valid_regs \ ts.valid_regs) >= 2

DwarfMappedRegisters ==
    {"R0", "R1", "R2", "R3", "R4", "R5", "R6", "R7", "R8", "R9", "R10", "R11", "R12",
     "SP", "LR", "PC"}

\* C14: for every register r among R0-R12, SP, LR, PC, map_reg_to_dwarf(r)
\* succeeds with some d and map_dwarf_to_reg(d) succeeds and gives r; and
\* for every d in 0 .. 15, map_dwarf_to_reg(d) succeeds with some r and
\* map_reg_to_dwarf(r) gives d.
C14_DwarfRoundTrip ==
    /\ (last.op = "map_reg_to_dwarf" /\ last.regnum \in DwarfMappedRegisters) =>
           /\ last.ret.ok
           /\ plcrash_async_thread_state_map_dwarf_to_reg(ts, last.ret.out,
                                                          "PLCRASH_REG_INVALID")
                = [ok |-> TRUE, out |-> last.regnum]
    /\ (last.op = "map_dwarf_to_reg" /\ last.dwarf_reg \in 0 .. 15) =>
           /\ last.ret.ok
           /\ plcrash_async_thread_state_map_reg_to_dwarf(ts, last.ret.out, NoDwarf)
                = [ok |-> TRUE, out |-> last.dwarf_reg]

\* map_reg_to_dwarf has returned the DWARF number of LR.
C14_Witness ==
    /\ last.op = "map_reg_to_dwarf"
    /\ last.regnum = "LR"
    /\ last.ret.ok

\* C15: for a register identifier that is none of R0-R12, SP, LR, PC, CPSR,
\* get_reg and set_reg trap and get_reg_name aborts; the thread state after
\* the trap of set_reg has the values and the validity it had before.
C15_UnknownRegisterTraps ==
    (last.op \in {"get_reg", "set_reg", "get_reg_name"}
        /\ last.regnum \notin ArmRegisterSet) =>
        /\ life = "trapped"
        /\ ts = last.pre
        /\ last.op = "get_reg" => last.ret.trap
        /\ last.op = "set_reg" => last.trap
        /\ last.op = "get_reg_name" => last.ret.abort

\* set_reg was called with an unknown register on a thread state that has a
\* valid register.
C15_Witness ==
    /\ last.op = "set_reg"
    /\ last.regnum \in UnknownRegisters
    /\ last.pre.valid_regs # {}

\* C16: map_dwarf_to_reg returns false and leaves its output as it was for
\* every DWARF number outside 0 .. 15; map_reg_to_dwarf returns false and
\* leaves its output as it was for CPSR; and no call of either traps.
C16_UnmappedReturnsFalse ==
    /\ (last.op = "map_dwarf_to_reg" /\ last.dwarf_reg \notin 0 .. 15) =>
           last.ret = [ok |-> FALSE, out |-> last.out]
    /\ (last.op = "map_reg_to_dwarf" /\ last.regnum = "CPSR") =>
           last.ret = [ok |-> FALSE, out |-> last.out]
    /\ last.op \in {"map_dwarf_to_reg", "map_reg_to_dwarf"} => life = "live"

\* map_reg_to_dwarf has returned from a call for CPSR.
C16_Witness ==
    /\ last.op = "map_reg_to_dwarf"
    /\ last.regnum = "CPSR"
    /\ ~last.ret.ok

====
